---- MODULE Spec2Model ----
(***************************************************************************)
(* A model of the valuation dashboard page (the Home component) of the     *)
(* zakat tracker front end: the ticker ledgers, the zakat derivations, the *)
(* column registry and the CSV export.                                     *)
(*                                                                         *)
(* Conventions.                                                            *)
(*  - A string is a sequence of atoms.  Every character the code inspects  *)
(*    (letters of tickers, digits, blanks, comma, double quote, line       *)
(*    break, colon) is an atom of its own; a fixed literal the code only   *)
(*    copies (a column label, a message) may be a single atom.             *)
(*  - A JavaScript number is a record [k, n, d]: k = "num" is the rational *)
(*    n/d in lowest terms (d > 0), k = "nan" and k = "inf" are NaN and the *)
(*    infinities (sign in n), k = "null" is null/undefined.  Arithmetic is *)
(*    exact: the rounding of IEEE doubles is not modelled.                 *)
(*  - Intl.NumberFormat(undefined, ...) is evaluated for the en-US locale. *)
(***************************************************************************)
EXTENDS Integers, Sequences, FiniteSets, TLC

VARIABLES
  portfolioRows,            \* useState<PortfolioInputRow[]>
  fundRows,                 \* useState<FundInputRow[]>
  portfolioResult,          \* useState<CompanyValuation[]>
  fundResult,               \* useState<FundValuation[]>
  portfolioGeneratedAt,     \* useState<string | null>
  fundGeneratedAt,          \* useState<string | null>
  activeTab,                \* "portfolio" | "funds"
  portfolioColumnConfig,    \* Record<string, ColumnConfig>
  fundHoldingColumnConfig,  \* Record<string, ColumnConfig>
  download,                 \* the file handed to triggerCsvDownload by the last step
  asOfDate,                 \* useState("")
  portfolioLoading,         \* useState(false)
  fundLoading,              \* useState(false)
  error,                    \* useState<string | null>(null), shared by both modes
  portfolioRequest,         \* the fetches of handlePortfolioSubmit awaited, oldest first: bodies
  fundRequest,              \* the fetches of handleFundFetch awaited, oldest first: bodies
  instructionsOpen,         \* useState(false)
  instructionsContent,      \* useState<string | null>(null)
  instructionsLoading,      \* useState(false)
  instructionsError,        \* useState<string | null>(null)
  loads                     \* the loadInstructions() calls that have not returned yet

valuationVars ==
  <<asOfDate, portfolioLoading, fundLoading, error, portfolioRequest, fundRequest>>

instructionsVars ==
  <<instructionsOpen, instructionsContent, instructionsLoading, instructionsError, loads>>

vars ==
  <<portfolioRows, fundRows, portfolioResult, fundResult, portfolioGeneratedAt,
    fundGeneratedAt, activeTab, portfolioColumnConfig, fundHoldingColumnConfig,
    download, valuationVars, instructionsVars>>

\* F(e), with e evaluated once and named
With(e, F(_)) == CHOOSE r \in {F(x) : x \in {e}} : TRUE

(***************************************************************************)
(* Strings                                                                 *)
(***************************************************************************)
NullStr == <<"<null>">>

QUOTE == "\""

COMMA == ","

NEWLINE == "\n"

EMDASH == "<em dash>"

LowerLetters == <<"a","b","c","d","e","f","g","h","i","j","k","l","m",
                  "n","o","p","q","r","s","t","u","v","w","x","y","z">>

UpperLetters == <<"A","B","C","D","E","F","G","H","I","J","K","L","M",
                  "N","O","P","Q","R","S","T","U","V","W","X","Y","Z">>

UpperChar(c) ==
  IF \E i \in 1..26 : LowerLetters[i] = c
  THEN UpperLetters[CHOOSE i \in 1..26 : LowerLetters[i] = c]
  ELSE c

LowerChar(c) ==
  IF \E i \in 1..26 : UpperLetters[i] = c
  THEN LowerLetters[CHOOSE i \in 1..26 : UpperLetters[i] = c]
  ELSE c

toUpperCase(s) == [i \in 1..Len(s) |-> UpperChar(s[i])]

toLowerCase(s) == [i \in 1..Len(s) |-> LowerChar(s[i])]

IsSpace(c) == c \in {" ", "\t", "\n"}

RECURSIVE TrimStart(_)
TrimStart(s) ==
  IF s # <<>> /\ IsSpace(Head(s)) THEN TrimStart(Tail(s)) ELSE s

RECURSIVE TrimEnd(_)
TrimEnd(s) ==
  IF s # <<>> /\ IsSpace(s[Len(s)]) THEN TrimEnd(SubSeq(s, 1, Len(s) - 1)) ELSE s

trim(s) == TrimEnd(TrimStart(s))

RECURSIVE Join(_, _)
Join(parts, sep) ==
  IF parts = <<>> THEN <<>>
  ELSE IF Len(parts) = 1 THEN parts[1]
  ELSE parts[1] \o sep \o Join(Tail(parts), sep)

(***************************************************************************)
(* Numbers                                                                 *)
(***************************************************************************)
Abs(x) == IF x < 0 THEN -x ELSE x

RECURSIVE GCD(_, _)
GCD(a, b) == IF b = 0 THEN a ELSE GCD(b, a % b)

RECURSIVE Pow10(_)
Pow10(e) == IF e = 0 THEN 1 ELSE 10 * Pow10(e - 1)

NullNum == [k |-> "null", n |-> 0, d |-> 1]

NaN == [k |-> "nan", n |-> 0, d |-> 1]

Infinity(sign) == [k |-> "inf", n |-> sign, d |-> 1]

Num(n, d) ==
  LET g == GCD(Abs(n), Abs(d))
      s == IF d < 0 THEN -1 ELSE 1
  IN  [k |-> "num", n |-> (s * n) \div g, d |-> (s * d) \div g]

IsNumber(v) == v.k # "null"

NumberIsFinite(v) == v.k = "num"

NumberIsNaN(v) == v.k = "nan"

\* a + b for finite operands; anything else is outside what the page computes
JsAdd(a, b) ==
  IF a.k = "num" /\ b.k = "num" THEN Num(a.n * b.d + b.n * a.d, a.d * b.d) ELSE NaN

JsMul(a, b) ==
  IF a.k = "num" /\ b.k = "num" THEN Num(a.n * b.n, a.d * b.d) ELSE NaN

JsDiv(a, b) ==
  IF a.k = "num" /\ b.k = "num"
  THEN IF b.n # 0 THEN Num(a.n * b.d, a.d * b.n)
       ELSE IF a.n = 0 THEN NaN ELSE Infinity(IF a.n < 0 THEN -1 ELSE 1)
  ELSE NaN

JsGreater(a, b) ==
  a.k = "num" /\ b.k = "num" /\ a.n * b.d > b.n * a.d

Digits == <<"0","1","2","3","4","5","6","7","8","9">>

IsDigit(c) == \E i \in 1..10 : Digits[i] = c

DigitVal(c) == (CHOOSE i \in 1..10 : Digits[i] = c) - 1

RECURSIVE DigitsValue(_, _)
DigitsValue(s, acc) ==
  IF s = <<>> THEN acc ELSE DigitsValue(Tail(s), 10 * acc + DigitVal(Head(s)))

RECURSIVE DigitsOf(_)
DigitsOf(x) ==
  IF x < 10 THEN <<Digits[x + 1]>> ELSE DigitsOf(x \div 10) \o <<Digits[(x % 10) + 1]>>

InfinityLiteral == <<"I","n","f","i","n","i","t","y">>

\* the text before the first atom of marks (all of it when there is none),
\* the text after it, and how many atoms of marks the text holds
SplitAtFirst(text, marks) ==
  LET at == {i \in 1..Len(text) : text[i] \in marks}
  IN  IF at = {} THEN [head |-> text, tail |-> <<>>, count |-> 0]
      ELSE With(CHOOSE i \in at : \A j \in at : i <= j,
                LAMBDA i : [head |-> SubSeq(text, 1, i - 1),
                            tail |-> SubSeq(text, i + 1, Len(text)),
                            count |-> Cardinality(at)])

AllDigits(text) == \A i \in 1..Len(text) : IsDigit(text[i])

\* sign * ip.fp * 10^(expSign * expDigits)
DecimalValue(sign, ip, fp, expSign, expDigits) ==
  LET m == DigitsValue(ip \o fp, 0)
      e == expSign * DigitsValue(expDigits, 0) - Len(fp)
  IN  IF m = 0 THEN Num(0, 1)
      ELSE IF e + Len(DigitsOf(m)) > 309   \* beyond 1.797e308, the largest double
           THEN Infinity(sign)
      ELSE IF e >= 0 THEN Num(sign * m * Pow10(e), 1)
      ELSE Num(sign * m, Pow10(-e))

\* a decimal literal: digits with at most one ".", then an optional exponent
DecimalLiteral(sign, body) ==
  With(SplitAtFirst(body, {"e", "E"}), LAMBDA x :
    With(SplitAtFirst(x.head, {"."}), LAMBDA m :
      LET expo == IF x.count = 0 THEN <<"0">> ELSE x.tail
          expSigned == expo # <<>> /\ Head(expo) \in {"-", "+"}
          expSign == IF expo # <<>> /\ Head(expo) = "-" THEN -1 ELSE 1
          expDigits == IF expSigned THEN Tail(expo) ELSE expo
          wellFormed == /\ x.count <= 1
                        /\ m.count <= 1
                        /\ Len(m.head) + Len(m.tail) > 0
                        /\ AllDigits(m.head)
                        /\ AllDigits(m.tail)
                        /\ expDigits # <<>>
                        /\ AllDigits(expDigits)
      IN  IF ~wellFormed THEN NaN
          ELSE DecimalValue(sign, m.head, m.tail, expSign, expDigits)))

\* StringToNumber on a trimmed text
TrimmedNumber(t) ==
  LET signed == t # <<>> /\ Head(t) \in {"-", "+"}
      sign == IF t # <<>> /\ Head(t) = "-" THEN -1 ELSE 1
  IN  IF t = <<>> THEN Num(0, 1)
      ELSE With(IF signed THEN Tail(t) ELSE t, LAMBDA body :
             IF body = InfinityLiteral THEN Infinity(sign)
             ELSE DecimalLiteral(sign, body))

\* Number(string): StringToNumber on the decimal literals and Infinity
NumberOfString(s) == With(trim(s), TrimmedNumber)

(***************************************************************************)
(* Formatting                                                              *)
(***************************************************************************)
RECURSIVE PadLeft(_, _)
PadLeft(s, len) == IF Len(s) >= len THEN s ELSE PadLeft(<<"0">> \o s, len)

RECURSIVE StripZeros(_, _)
StripZeros(s, minLen) ==
  IF Len(s) > minLen /\ s[Len(s)] = "0"
  THEN StripZeros(SubSeq(s, 1, Len(s) - 1), minLen)
  ELSE s

RECURSIVE Grouped(_)
Grouped(s) ==
  IF Len(s) <= 3 THEN s
  ELSE Grouped(SubSeq(s, 1, Len(s) - 3)) \o <<",">> \o SubSeq(s, Len(s) - 2, Len(s))

\* |v| * 10^digits rounded to the nearest integer, ties away from zero
RoundedUnits(v, digits) ==
  LET a == Abs(v.n) * Pow10(digits)
      q == a \div v.d
      r == a % v.d
  IN  IF 2 * r >= v.d THEN q + 1 ELSE q

DefaultMinFraction == 0

DefaultMaxFraction == 2

\* formatNumber(value, {minimumFractionDigits: minF, maximumFractionDigits: maxF})
formatNumberWith(value, minF, maxF) ==
  With(value, LAMBDA v :
    IF v.k = "null" \/ v.k = "nan" THEN <<EMDASH>>
    ELSE IF v.k = "inf"
         THEN (IF v.n < 0 THEN <<"-">> ELSE <<>>) \o <<"<infinity>">>
    ELSE With(RoundedUnits(v, maxF), LAMBDA u :
           LET ip == DigitsOf(u \div Pow10(maxF))
               fp == IF maxF = 0 THEN <<>>
                     ELSE StripZeros(PadLeft(DigitsOf(u % Pow10(maxF)), maxF), minF)
           IN  (IF v.n < 0 THEN <<"-">> ELSE <<>>)
               \o Grouped(ip)
               \o (IF fp = <<>> THEN <<>> ELSE <<".">> \o fp)))

formatNumber(value) == formatNumberWith(value, DefaultMinFraction, DefaultMaxFraction)

\* `${(value * 100).toFixed(2)}%`
formatRatio(value) ==
  With(value, LAMBDA v :
    IF v.k = "null" \/ v.k = "nan" THEN <<EMDASH>>
    ELSE IF v.k = "inf"
         THEN (IF v.n < 0 THEN <<"-">> ELSE <<>>) \o <<"Infinity", "%">>
    ELSE With(RoundedUnits(JsMul(v, Num(100, 1)), 2), LAMBDA u :
           (IF v.n < 0 THEN <<"-">> ELSE <<>>)
           \o DigitsOf(u \div 100) \o <<".">> \o PadLeft(DigitsOf(u % 100), 2)
           \o <<"%">>))

(***************************************************************************)
(* CSV                                                                     *)
(***************************************************************************)
RECURSIVE DoubleQuotes(_)
DoubleQuotes(s) ==
  IF s = <<>> THEN <<>>
  ELSE (IF Head(s) = QUOTE THEN <<QUOTE, QUOTE>> ELSE <<Head(s)>>)
       \o DoubleQuotes(Tail(s))

\* faulty variant: the quotes wrapped but not doubled
sanitizeCsvValue_NoDoubling(value) ==
  IF value = NullStr THEN <<>>
  ELSE IF \E i \in 1..Len(value) : value[i] \in {QUOTE, COMMA, NEWLINE}
       THEN <<QUOTE>> \o value \o <<QUOTE>>
       ELSE value

sanitizeCsvValue(value) ==
  IF value = NullStr THEN <<>>
  ELSE LET escaped == DoubleQuotes(value)
       IN  IF \E i \in 1..Len(escaped) : escaped[i] \in {QUOTE, COMMA, NEWLINE}
           THEN <<QUOTE>> \o escaped \o <<QUOTE>>
           ELSE escaped

\* faulty variant: a row's empty values are skipped, not written as empty fields
createCsvContent_SkipsEmptyValues(headers, rows) ==
  LET filled(value) == value # <<>>
      line(row) ==
        Join(SelectSeq([i \in 1..Len(row) |-> sanitizeCsvValue(row[i])], filled),
             <<COMMA>>)
  IN  With(<<headers>> \o rows, LAMBDA csvRows :
        Join([i \in 1..Len(csvRows) |-> line(csvRows[i])], <<NEWLINE>>))

createCsvContent(headers, rows) ==
  LET line(row) == Join([i \in 1..Len(row) |-> sanitizeCsvValue(row[i])], <<COMMA>>)
  IN  With(<<headers>> \o rows, LAMBDA csvRows :
        Join([i \in 1..Len(csvRows) |-> line(csvRows[i])], <<NEWLINE>>))

(***************************************************************************)
(* Ticker ledgers                                                          *)
(***************************************************************************)
EmptyMap == [x \in {} |-> NullNum]

MapHas(map, key) == key \in DOMAIN map

MapSet(map, key, value) ==
  [x \in DOMAIN map \cup {key} |-> IF x = key THEN value ELSE map[x]]

\* faulty variant: map.set(ticker, amountValue), the running sum forgotten
AmountMapStep_Overwrites(map, row) ==
  LET ticker == toUpperCase(trim(row.ticker))
      amountValue == NumberOfString(row.amount)
  IN  IF ticker = <<>> THEN map
      ELSE IF ~NumberIsFinite(amountValue) THEN map
      ELSE MapSet(map, ticker, amountValue)

\* one iteration of the loop over the input rows
AmountMapStep(map, row) ==
  LET ticker == toUpperCase(trim(row.ticker))
  IN  IF ticker = <<>> THEN map
      ELSE With(NumberOfString(row.amount), LAMBDA amountValue :
             IF ~NumberIsFinite(amountValue) THEN map
             ELSE MapSet(map, ticker,
                         JsAdd(IF MapHas(map, ticker) THEN map[ticker] ELSE Num(0, 1),
                               amountValue)))

RECURSIVE AmountMapLoop(_, _, _)
AmountMapLoop(rows, i, map) ==
  IF i > Len(rows) THEN map
  ELSE AmountMapLoop(rows, i + 1, AmountMapStep(map, rows[i]))

\* faulty variant: one ledger for both tabs, the portfolio rows added to
\* the fund rows
fundAmountMap_Merged ==
  AmountMapLoop(fundRows \o [i \in 1..Len(portfolioRows) |->
                               [ticker |-> portfolioRows[i].ticker,
                                amount |-> portfolioRows[i].amount]],
                1, EmptyMap)

fundAmountMap == AmountMapLoop(fundRows, 1, EmptyMap)

\* faulty variant: the memo is never recomputed, the ledger stays the one of
\* the rows the page was loaded with
portfolioAmountMap_NeverRecomputed ==
  AmountMapLoop(<< [ticker |-> <<>>, shares |-> <<>>, amount |-> <<>>] >>, 1, EmptyMap)

portfolioAmountMap == AmountMapLoop(portfolioRows, 1, EmptyMap)

(***************************************************************************)
(* Zakat calculator, portfolio path                                        *)
(***************************************************************************)
\* faulty variant: 2.5% written as 0.25
ZAKAT_RATE_Tenfold == Num(25, 100)

ZAKAT_RATE == Num(25, 1000)

\* faulty variant: a missing operand coerced to 0
computePortfolioZakatableAmount_ZeroForMissing(company) ==
  LET key == toUpperCase(company.ticker)
      ratio == IF IsNumber(company.cri_to_market_price_ratio)
               THEN company.cri_to_market_price_ratio
               ELSE Num(0, 1)
      investedAmount == IF MapHas(portfolioAmountMap, key)
                        THEN portfolioAmountMap[key] ELSE Num(0, 1)
  IN  JsMul(investedAmount, ratio)

computePortfolioZakatableAmount(company) ==
  IF company.ticker = <<>> \/ company.ticker = NullStr THEN NullNum
  ELSE LET key == toUpperCase(company.ticker)
           ratio == IF IsNumber(company.cri_to_market_price_ratio)
                    THEN company.cri_to_market_price_ratio
                    ELSE NullNum
       IN  With(portfolioAmountMap, LAMBDA ledger :
             IF ~MapHas(ledger, key) \/ ratio = NullNum THEN NullNum
             ELSE JsMul(ledger[key], ratio))

computePortfolioZakatDue(company) ==
  With(computePortfolioZakatableAmount(company), LAMBDA zakatableAmount :
    IF zakatableAmount = NullNum THEN NullNum
    ELSE JsMul(zakatableAmount, ZAKAT_RATE))

(***************************************************************************)
(* Fund aggregator and zakat calculator, fund path (the fund card)         *)
(***************************************************************************)
\* faulty variant: the coverage test written >= 0
extrapolatedCriRatio_AllowsZero(fund) ==
  LET aggregateCriRatio == fund.aggregate_cri_to_market_price_ratio
      totalWeightCovered == fund.total_weight_covered
  IN  IF /\ aggregateCriRatio # NullNum
         /\ totalWeightCovered # NullNum
         /\ ~JsGreater(Num(0, 1), totalWeightCovered)
      THEN JsDiv(aggregateCriRatio, totalWeightCovered)
      ELSE NullNum

extrapolatedCriRatio(fund) ==
  LET aggregateCriRatio == fund.aggregate_cri_to_market_price_ratio
      totalWeightCovered == fund.total_weight_covered
  IN  IF /\ aggregateCriRatio # NullNum
         /\ totalWeightCovered # NullNum
         /\ JsGreater(totalWeightCovered, Num(0, 1))
      THEN JsDiv(aggregateCriRatio, totalWeightCovered)
      ELSE NullNum

\* faulty variant: the raw aggregate ratio in place of the extrapolated one
fundZakatableAmount_UsesAggregate(fund) ==
  LET key == toUpperCase(fund.ticker)
  IN  IF MapHas(fundAmountMap, key) /\ extrapolatedCriRatio(fund) # NullNum
      THEN JsMul(fundAmountMap[key], fund.aggregate_cri_to_market_price_ratio)
      ELSE NullNum

fundZakatableAmount(fund) ==
  LET key == toUpperCase(fund.ticker)
  IN  IF MapHas(fundAmountMap, key) /\ extrapolatedCriRatio(fund) # NullNum
      THEN JsMul(fundAmountMap[key], extrapolatedCriRatio(fund))
      ELSE NullNum

fundZakatDue(fund) ==
  IF fundZakatableAmount(fund) # NullNum
  THEN JsMul(fundZakatableAmount(fund), ZAKAT_RATE)
  ELSE NullNum

zakatableAmountDisplay(fund) == formatNumberWith(fundZakatableAmount(fund), 2, 2)

zakatDueDisplay(fund) == formatNumberWith(fundZakatDue(fund), 2, 2)

extrapolatedDisplay(fund) ==
  IF extrapolatedCriRatio(fund) # NullNum
  THEN formatRatio(extrapolatedCriRatio(fund))
  ELSE <<"-">>

(***************************************************************************)
(* Column registry: portfolio columns                                      *)
(***************************************************************************)
Coalesce(value, fallback) == IF value = NullStr THEN fallback ELSE value

portfolioColumns ==
  << [id |-> "ticker",           label |-> <<"Ticker">>,           defaultWidth |-> 140],
     [id |-> "company",          label |-> <<"Company">>,          defaultWidth |-> 220],
     [id |-> "currency",         label |-> <<"Currency">>,         defaultWidth |-> 120],
     [id |-> "cash",             label |-> <<"Cash">>,             defaultWidth |-> 140],
     [id |-> "receivables",      label |-> <<"Receivables">>,      defaultWidth |-> 140],
     [id |-> "inventories",      label |-> <<"Inventories">>,      defaultWidth |-> 140],
     [id |-> "market_price",     label |-> <<"Market Price">>,     defaultWidth |-> 160],
     [id |-> "shares",           label |-> <<"Shares Used">>,      defaultWidth |-> 150],
     [id |-> "cri_per_share",    label |-> <<"CRI per Share">>,    defaultWidth |-> 160],
     [id |-> "cri_ratio",        label |-> <<"CRI / Price">>,      defaultWidth |-> 140],
     [id |-> "zakatable_amount", label |-> <<"Zakatable Amount">>, defaultWidth |-> 180],
     [id |-> "zakat_due",        label |-> <<"Zakat Due">>,        defaultWidth |-> 160] >>

portfolioRenderCell(columnId, company) ==
  CASE columnId = "ticker"           -> Coalesce(company.ticker, <<"-">>)
    [] columnId = "company"          -> Coalesce(company.company_name, <<"-">>)
    [] columnId = "currency"         -> Coalesce(company.currency, <<"-">>)
    [] columnId = "cash"             -> formatNumber(company.cash_and_equivalents)
    [] columnId = "receivables"      -> formatNumber(company.receivables)
    [] columnId = "inventories"      -> formatNumber(company.inventories)
    [] columnId = "market_price"     -> formatNumberWith(company.market_price, 2, 4)
    [] columnId = "shares"           ->
         formatNumberWith(company.shares_outstanding, DefaultMinFraction, 0)
    [] columnId = "cri_per_share"    -> formatNumberWith(company.cri_per_share, 4, 6)
    [] columnId = "cri_ratio"        -> formatRatio(company.cri_to_market_price_ratio)
    [] columnId = "zakatable_amount" ->
         formatNumberWith(computePortfolioZakatableAmount(company), 2, 2)
    [] columnId = "zakat_due"        ->
         formatNumberWith(computePortfolioZakatDue(company), 2, 2)

\* faulty variant: the zakat columns exported with the default fraction digits
portfolioGetExportValue_DefaultDigits(columnId, company) ==
  CASE columnId = "zakatable_amount" ->
         formatNumber(computePortfolioZakatableAmount(company))
    [] columnId = "zakat_due"        ->
         formatNumber(computePortfolioZakatDue(company))
    [] OTHER -> portfolioRenderCell(columnId, company)

portfolioGetExportValue(columnId, company) ==
  CASE columnId = "ticker"           -> Coalesce(company.ticker, <<"-">>)
    [] columnId = "company"          -> Coalesce(company.company_name, <<"-">>)
    [] columnId = "currency"         -> Coalesce(company.currency, <<"-">>)
    [] columnId = "cash"             -> formatNumber(company.cash_and_equivalents)
    [] columnId = "receivables"      -> formatNumber(company.receivables)
    [] columnId = "inventories"      -> formatNumber(company.inventories)
    [] columnId = "market_price"     -> formatNumberWith(company.market_price, 2, 4)
    [] columnId = "shares"           ->
         formatNumberWith(company.shares_outstanding, DefaultMinFraction, 0)
    [] columnId = "cri_per_share"    -> formatNumberWith(company.cri_per_share, 4, 6)
    [] columnId = "cri_ratio"        -> formatRatio(company.cri_to_market_price_ratio)
    [] columnId = "zakatable_amount" ->
         formatNumberWith(computePortfolioZakatableAmount(company), 2, 2)
    [] columnId = "zakat_due"        ->
         formatNumberWith(computePortfolioZakatDue(company), 2, 2)

\* Object.fromEntries(columns.map(column => [column.id, {visible: true, width}]))
InitialColumnConfig(columns) ==
  [id \in {columns[i].id : i \in 1..Len(columns)} |->
     [visible |-> TRUE,
      width |-> (CHOOSE c \in {columns[i] : i \in 1..Len(columns)} : c.id = id).defaultWidth]]

\* config[column.id]?.visible ?? true
ColumnIsVisible(config, columnId) ==
  IF columnId \in DOMAIN config THEN config[columnId].visible ELSE TRUE

\* faulty variant: the visible columns collected in reverse
RECURSIVE FilterVisible_Reversed(_, _, _)
FilterVisible_Reversed(columns, config, i) ==
  IF i > Len(columns) THEN <<>>
  ELSE FilterVisible_Reversed(columns, config, i + 1)
       \o (IF ColumnIsVisible(config, columns[i].id) THEN <<columns[i]>> ELSE <<>>)

RECURSIVE FilterVisible(_, _, _)
FilterVisible(columns, config, i) ==
  IF i > Len(columns) THEN <<>>
  ELSE (IF ColumnIsVisible(config, columns[i].id) THEN <<columns[i]>> ELSE <<>>)
       \o FilterVisible(columns, config, i + 1)

visiblePortfolioColumns == FilterVisible(portfolioColumns, portfolioColumnConfig, 1)

(***************************************************************************)
(* Column registry: fund-holding columns                                   *)
(***************************************************************************)
getFundHoldingLabel(holding) ==
  LET ticker == holding.ticker
      name == holding.name
  IN  IF /\ ticker # NullStr /\ ticker # <<>>
         /\ name # NullStr /\ name # <<>>
         /\ toLowerCase(name) # toLowerCase(ticker)
      THEN ticker \o <<" ", "(">> \o name \o <<")">>
      ELSE Coalesce(ticker, Coalesce(name, <<"N/A">>))

\* holding.company?.<field> ?? null
HoldingCompanyNumber(holding, fieldName) ==
  IF holding.company = <<>> THEN NullNum ELSE holding.company[1][fieldName]

fundHoldingColumns ==
  << [id |-> "holding",       label |-> <<"Holding">>,       defaultWidth |-> 220],
     [id |-> "weight",        label |-> <<"Weight">>,        defaultWidth |-> 120],
     [id |-> "cash",          label |-> <<"Cash">>,          defaultWidth |-> 140],
     [id |-> "receivables",   label |-> <<"Receivables">>,   defaultWidth |-> 150],
     [id |-> "inventories",   label |-> <<"Inventories">>,   defaultWidth |-> 150],
     [id |-> "market_price",  label |-> <<"Market Price">>,  defaultWidth |-> 150],
     [id |-> "shares",        label |-> <<"Shares Used">>,   defaultWidth |-> 150],
     [id |-> "cri_per_share", label |-> <<"CRI per Share">>, defaultWidth |-> 160],
     [id |-> "cri_ratio",     label |-> <<"CRI / Price">>,   defaultWidth |-> 140] >>

fundHoldingRenderCell(columnId, holding) ==
  CASE columnId = "holding"       -> getFundHoldingLabel(holding)
    [] columnId = "weight"        ->
         IF holding.weight # NullNum THEN formatRatio(holding.weight) ELSE <<"N/A">>
    [] columnId = "cash"          ->
         formatNumber(HoldingCompanyNumber(holding, "cash_and_equivalents"))
    [] columnId = "receivables"   ->
         formatNumber(HoldingCompanyNumber(holding, "receivables"))
    [] columnId = "inventories"   ->
         formatNumber(HoldingCompanyNumber(holding, "inventories"))
    [] columnId = "market_price"  ->
         formatNumber(HoldingCompanyNumber(holding, "market_price"))
    [] columnId = "shares"        ->
         formatNumberWith(HoldingCompanyNumber(holding, "shares_outstanding"),
                          DefaultMinFraction, 0)
    [] columnId = "cri_per_share" ->
         formatNumberWith(HoldingCompanyNumber(holding, "cri_per_share"), 4, 6)
    [] columnId = "cri_ratio"     ->
         LET ratio == HoldingCompanyNumber(holding, "cri_to_market_price_ratio")
         IN  IF ratio # NullNum THEN formatRatio(ratio) ELSE <<"N/A">>

visibleFundHoldingColumns == FilterVisible(fundHoldingColumns, fundHoldingColumnConfig, 1)

\* a - b, infinite operands included
JsSub(a, b) ==
  IF a.k = "num" /\ b.k = "num" THEN Num(a.n * b.d - b.n * a.d, a.d * b.d)
  ELSE IF a.k = "inf" /\ b.k = "num" THEN a
  ELSE IF a.k = "num" /\ b.k = "inf" THEN Infinity(-b.n)
  ELSE IF a.k = "inf" /\ b.k = "inf" /\ a.n # b.n THEN a
  ELSE NaN

\* typeof holding.weight === "number" ? holding.weight : Number.NEGATIVE_INFINITY
SortWeight(holding) ==
  IF IsNumber(holding.weight) THEN holding.weight ELSE Infinity(-1)

\* faulty variant: weightA - weightB
compareHoldings_Ascending(a, b) == JsSub(SortWeight(a), SortWeight(b))

\* the comparator of the holdings table: weightB - weightA
compareHoldings(a, b) == JsSub(SortWeight(b), SortWeight(a))

\* a comparator result above zero: a sorts after b (NaN counts as zero)
SortsAfter(a, b) ==
  With(compareHoldings(a, b),
       LAMBDA v : (v.k = "num" /\ v.n > 0) \/ (v.k = "inf" /\ v.n > 0))

\* x put behind the elements it does not sort before
RECURSIVE InsertHolding(_, _)
InsertHolding(sorted, x) ==
  IF sorted = <<>> THEN <<x>>
  ELSE IF SortsAfter(Head(sorted), x) THEN <<x>> \o sorted
  ELSE <<Head(sorted)>> \o InsertHolding(Tail(sorted), x)

\* holdings.slice().sort(comparator): Array.prototype.sort is stable, and
\* with weights that are numbers or null the comparator is consistent
RECURSIVE SortLoop(_, _, _)
SortLoop(sorted, holdings, i) ==
  IF i > Len(holdings) THEN sorted
  ELSE SortLoop(InsertHolding(sorted, holdings[i]), holdings, i + 1)

sortedHoldings(holdings) == SortLoop(<<>>, holdings, 1)

\* the cells of the holdings table of a fund, row by row
displayedHoldingRows(fund) ==
  With(sortedHoldings(fund.holdings),
       LAMBDA rows :
         [i \in 1..Len(rows) |->
            [j \in 1..Len(visibleFundHoldingColumns) |->
               fundHoldingRenderCell(visibleFundHoldingColumns[j].id, rows[i])]])

(***************************************************************************)
(* CSV export                                                              *)
(***************************************************************************)
NoDownload == [emitted |-> FALSE, filename |-> <<>>, content |-> <<>>]

\* the timestamps new Date(value) can parse, already in toISOString() form
IsoTimestamps ==
  { <<"2024-01-02", "T", "03", ":", "04", ":", "05.000", "Z">>,
    <<"2024-06-30", "T", "00", ":", "00", ":", "00.000", "Z">> }

\* what new Date() may return: the time of the click
ClockValues == { <<"2024-07-01", "T", "12", ":", "00", ":", "00.000", "Z">> }

buildFilenameTimestamp(value, now) ==
  LET base == IF value # NullStr /\ value # <<>> THEN value ELSE now
      safeDate == IF base \in IsoTimestamps \cup ClockValues THEN base ELSE now
  IN  [i \in 1..Len(safeDate) |-> IF safeDate[i] = ":" THEN "-" ELSE safeDate[i]]

\* faulty variant: every column exported, the visibility flags ignored
handleDownloadPortfolio_AllColumns(now) ==
  /\ activeTab = "portfolio"
  /\ Len(portfolioResult) > 0
  /\ LET exportColumns == portfolioColumns
         headers == [j \in 1..Len(exportColumns) |-> exportColumns[j].label]
                    \o << <<"Warnings">> >>
         rows == [i \in 1..Len(portfolioResult) |->
                    [j \in 1..Len(exportColumns) |->
                       portfolioGetExportValue(exportColumns[j].id, portfolioResult[i])]
                    \o << Join(portfolioResult[i].warnings, <<" ">>) >>]
         timestamp == buildFilenameTimestamp(portfolioGeneratedAt, now)
         csvContent == createCsvContent(headers, rows)
     IN  download' = [emitted |-> TRUE,
                      filename |-> <<"portfolio-valuations-">> \o timestamp \o <<".csv">>,
                      content |-> csvContent]
  /\ UNCHANGED <<valuationVars, instructionsVars,
                 portfolioRows, fundRows, portfolioResult, fundResult,
                 portfolioGeneratedAt, fundGeneratedAt, activeTab,
                 portfolioColumnConfig, fundHoldingColumnConfig>>

handleDownloadPortfolio(now) ==
  /\ activeTab = "portfolio"
  /\ Len(portfolioResult) > 0
  /\ LET exportColumns == FilterVisible(portfolioColumns, portfolioColumnConfig, 1)
         headers == [j \in 1..Len(exportColumns) |-> exportColumns[j].label]
                    \o << <<"Warnings">> >>
         rows == [i \in 1..Len(portfolioResult) |->
                    [j \in 1..Len(exportColumns) |->
                       portfolioGetExportValue(exportColumns[j].id, portfolioResult[i])]
                    \o << Join(portfolioResult[i].warnings, <<" ">>) >>]
         timestamp == buildFilenameTimestamp(portfolioGeneratedAt, now)
         csvContent == createCsvContent(headers, rows)
     IN  download' = [emitted |-> TRUE,
                      filename |-> <<"portfolio-valuations-">> \o timestamp \o <<".csv">>,
                      content |-> csvContent]
  /\ UNCHANGED <<valuationVars, instructionsVars,
                 portfolioRows, fundRows, portfolioResult, fundResult,
                 portfolioGeneratedAt, fundGeneratedAt, activeTab,
                 portfolioColumnConfig, fundHoldingColumnConfig>>

fundHoldingsExportHeaders ==
  << <<"Holding">>, <<"Ticker">>, <<"Name">>, <<"ISIN">>, <<"CUSIP">>, <<"Weight">>,
     <<"Cash">>, <<"Receivables">>, <<"Inventories">>, <<"Market Price">>,
     <<"Shares">>, <<"CRI per Share">>, <<"CRI / Price">>,
     <<"Holding Warnings">>, <<"Company Warnings">> >>

fundHoldingsExportRow(holding) ==
  LET ticker == holding.ticker
      name == holding.name
      label == IF /\ ticker # NullStr /\ ticker # <<>>
                  /\ name # NullStr /\ name # <<>>
                  /\ toLowerCase(name) # toLowerCase(ticker)
               THEN ticker \o <<" ", "(">> \o name \o <<")">>
               ELSE Coalesce(ticker, Coalesce(name, <<"N/A">>))
      criRatio == HoldingCompanyNumber(holding, "cri_to_market_price_ratio")
  IN  << label,
         Coalesce(holding.ticker, <<EMDASH>>),
         Coalesce(holding.name, <<EMDASH>>),
         Coalesce(holding.isin, <<EMDASH>>),
         Coalesce(holding.cusip, <<EMDASH>>),
         IF holding.weight # NullNum THEN formatRatio(holding.weight) ELSE <<"N/A">>,
         formatNumber(HoldingCompanyNumber(holding, "cash_and_equivalents")),
         formatNumber(HoldingCompanyNumber(holding, "receivables")),
         formatNumber(HoldingCompanyNumber(holding, "inventories")),
         formatNumber(HoldingCompanyNumber(holding, "market_price")),
         formatNumberWith(HoldingCompanyNumber(holding, "shares_outstanding"),
                          DefaultMinFraction, 0),
         formatNumberWith(HoldingCompanyNumber(holding, "cri_per_share"), 4, 6),
         IF criRatio # NullNum THEN formatRatio(criRatio) ELSE <<"N/A">>,
         Join(holding.warnings, <<" ">>),
         IF holding.company = <<>> THEN <<>>
         ELSE Join(holding.company[1].warnings, <<" ">>) >>

\* the Download CSV button of the card of fundResult[f]
handleDownloadFundHoldings(f, now) ==
  /\ activeTab = "funds"
  /\ f \in 1..Len(fundResult)
  /\ Len(fundResult[f].holdings) > 0
  /\ LET fund == fundResult[f]
         headers == fundHoldingsExportHeaders
         rows == [i \in 1..Len(fund.holdings) |-> fundHoldingsExportRow(fund.holdings[i])]
         timestamp == buildFilenameTimestamp(fundGeneratedAt, now)
         filename == toLowerCase((IF fund.ticker # <<>> THEN fund.ticker ELSE <<"fund">>)
                                 \o <<"-holdings-">> \o timestamp \o <<".csv">>)
         csvContent == createCsvContent(headers, rows)
     IN  download' = [emitted |-> TRUE, filename |-> filename, content |-> csvContent]
  /\ UNCHANGED <<valuationVars, instructionsVars,
                 portfolioRows, fundRows, portfolioResult, fundResult,
                 portfolioGeneratedAt, fundGeneratedAt, activeTab,
                 portfolioColumnConfig, fundHoldingColumnConfig>>

(***************************************************************************)
(* Input rows, tabs and column settings                                    *)
(***************************************************************************)
MaxRows == 2

setActiveTab_ResetsColumns(tab) ==
  /\ activeTab' = tab
  /\ portfolioColumnConfig' = InitialColumnConfig(portfolioColumns)
  /\ fundHoldingColumnConfig' = InitialColumnConfig(fundHoldingColumns)
  /\ download' = NoDownload
  /\ UNCHANGED <<valuationVars, instructionsVars,
                 portfolioRows, fundRows, portfolioResult, fundResult,
                 portfolioGeneratedAt, fundGeneratedAt>>

setActiveTab(tab) ==
  /\ activeTab' = tab
  /\ download' = NoDownload
  /\ UNCHANGED <<valuationVars, instructionsVars,
                 portfolioRows, fundRows, portfolioResult, fundResult,
                 portfolioGeneratedAt, fundGeneratedAt,
                 portfolioColumnConfig, fundHoldingColumnConfig>>

handlePortfolioChange(index, key, value) ==
  /\ activeTab = "portfolio"
  /\ index \in 1..Len(portfolioRows)
  /\ portfolioRows' =
       [portfolioRows EXCEPT ![index] =
          [@ EXCEPT ![key] = IF key = "ticker" THEN toUpperCase(value) ELSE value]]
  /\ download' = NoDownload
  /\ UNCHANGED <<valuationVars, instructionsVars,
                 fundRows, portfolioResult, fundResult, portfolioGeneratedAt,
                 fundGeneratedAt, activeTab, portfolioColumnConfig,
                 fundHoldingColumnConfig>>

handleFundChange(index, key, value) ==
  /\ activeTab = "funds"
  /\ index \in 1..Len(fundRows)
  /\ fundRows' =
       [fundRows EXCEPT ![index] =
          [@ EXCEPT ![key] = IF key = "ticker" THEN toUpperCase(value) ELSE value]]
  /\ download' = NoDownload
  /\ UNCHANGED <<valuationVars, instructionsVars,
                 portfolioRows, portfolioResult, fundResult, portfolioGeneratedAt,
                 fundGeneratedAt, activeTab, portfolioColumnConfig,
                 fundHoldingColumnConfig>>

addPortfolioRow ==
  /\ activeTab = "portfolio"
  /\ Len(portfolioRows) < MaxRows
  /\ portfolioRows' = Append(portfolioRows, [ticker |-> <<>>, shares |-> <<>>, amount |-> <<>>])
  /\ download' = NoDownload
  /\ UNCHANGED <<valuationVars, instructionsVars,
                 fundRows, portfolioResult, fundResult, portfolioGeneratedAt,
                 fundGeneratedAt, activeTab, portfolioColumnConfig,
                 fundHoldingColumnConfig>>

removePortfolioRow(index) ==
  /\ activeTab = "portfolio"
  /\ Len(portfolioRows) # 1
  /\ index \in 1..Len(portfolioRows)
  /\ portfolioRows' = SubSeq(portfolioRows, 1, index - 1)
                      \o SubSeq(portfolioRows, index + 1, Len(portfolioRows))
  /\ download' = NoDownload
  /\ UNCHANGED <<valuationVars, instructionsVars,
                 fundRows, portfolioResult, fundResult, portfolioGeneratedAt,
                 fundGeneratedAt, activeTab, portfolioColumnConfig,
                 fundHoldingColumnConfig>>

addFundRow ==
  /\ activeTab = "funds"
  /\ Len(fundRows) < MaxRows
  /\ fundRows' = Append(fundRows, [ticker |-> <<>>, amount |-> <<>>])
  /\ download' = NoDownload
  /\ UNCHANGED <<valuationVars, instructionsVars,
                 portfolioRows, portfolioResult, fundResult, portfolioGeneratedAt,
                 fundGeneratedAt, activeTab, portfolioColumnConfig,
                 fundHoldingColumnConfig>>

removeFundRow(index) ==
  /\ activeTab = "funds"
  /\ Len(fundRows) # 1
  /\ index \in 1..Len(fundRows)
  /\ fundRows' = SubSeq(fundRows, 1, index - 1)
                 \o SubSeq(fundRows, index + 1, Len(fundRows))
  /\ download' = NoDownload
  /\ UNCHANGED <<valuationVars, instructionsVars,
                 portfolioRows, portfolioResult, fundResult, portfolioGeneratedAt,
                 fundGeneratedAt, activeTab, portfolioColumnConfig,
                 fundHoldingColumnConfig>>

FallbackWidth == 160

\* column?.defaultWidth ?? 160
DefaultWidthOf(columns, columnId) ==
  IF \E i \in 1..Len(columns) : columns[i].id = columnId
  THEN columns[CHOOSE i \in 1..Len(columns) : columns[i].id = columnId].defaultWidth
  ELSE FallbackWidth

\* faulty variant: the entry's width is reset to the default width
WithVisibility_ResetsWidth(prev, columns, columnId, visible) ==
  MapSet(prev, columnId,
         [visible |-> visible, width |-> DefaultWidthOf(columns, columnId)])

\* {...prev, [columnId]: {visible, width: prev[columnId]?.width ?? fallbackWidth}}
WithVisibility(prev, columns, columnId, visible) ==
  MapSet(prev, columnId,
         [visible |-> visible,
          width |-> IF columnId \in DOMAIN prev THEN prev[columnId].width
                    ELSE DefaultWidthOf(columns, columnId)])

handlePortfolioColumnVisibilityChange(columnId, visible) ==
  /\ activeTab = "portfolio"
  /\ Len(portfolioResult) > 0
  /\ portfolioColumnConfig' =
       WithVisibility(portfolioColumnConfig, portfolioColumns, columnId, visible)
  /\ download' = NoDownload
  /\ UNCHANGED <<valuationVars, instructionsVars,
                 portfolioRows, fundRows, portfolioResult, fundResult,
                 portfolioGeneratedAt, fundGeneratedAt, activeTab,
                 fundHoldingColumnConfig>>

handleFundColumnVisibilityChange(columnId, visible) ==
  /\ activeTab = "funds"
  /\ Len(fundResult) > 0
  /\ fundHoldingColumnConfig' =
       WithVisibility(fundHoldingColumnConfig, fundHoldingColumns, columnId, visible)
  /\ download' = NoDownload
  /\ UNCHANGED <<valuationVars, instructionsVars,
                 portfolioRows, fundRows, portfolioResult, fundResult,
                 portfolioGeneratedAt, fundGeneratedAt, activeTab,
                 portfolioColumnConfig>>

\* faulty variant: the width is clamped to the slider's range
WithWidth_Clamps(prev, columnId, width) ==
  MapSet(prev, columnId,
         [visible |-> IF columnId \in DOMAIN prev THEN prev[columnId].visible ELSE TRUE,
          width |-> IF width < 96 THEN 96 ELSE IF width > 320 THEN 320 ELSE width])

\* {...prev, [columnId]: {visible: prev[columnId]?.visible ?? true, width}}
WithWidth(prev, columnId, width) ==
  MapSet(prev, columnId,
         [visible |-> IF columnId \in DOMAIN prev THEN prev[columnId].visible ELSE TRUE,
          width |-> width])

handlePortfolioColumnWidthChange(columnId, width) ==
  /\ activeTab = "portfolio"
  /\ Len(portfolioResult) > 0
  /\ portfolioColumnConfig' = WithWidth(portfolioColumnConfig, columnId, width)
  /\ download' = NoDownload
  /\ UNCHANGED <<valuationVars, instructionsVars,
                 portfolioRows, fundRows, portfolioResult, fundResult,
                 portfolioGeneratedAt, fundGeneratedAt, activeTab,
                 fundHoldingColumnConfig>>

handleFundColumnWidthChange(columnId, width) ==
  /\ activeTab = "funds"
  /\ Len(fundResult) > 0
  /\ fundHoldingColumnConfig' = WithWidth(fundHoldingColumnConfig, columnId, width)
  /\ download' = NoDownload
  /\ UNCHANGED <<valuationVars, instructionsVars,
                 portfolioRows, fundRows, portfolioResult, fundResult,
                 portfolioGeneratedAt, fundGeneratedAt, activeTab,
                 portfolioColumnConfig>>

\* faulty variant: every definition's entry is written, present or not
HealStep_Overwrites(next, column) ==
  MapSet(next, column.id, [visible |-> TRUE, width |-> column.defaultWidth])

\* if (!next[column.id]) next[column.id] = {visible: true, width: column.defaultWidth}
HealStep(next, column) ==
  IF MapHas(next, column.id)
  THEN next
  ELSE MapSet(next, column.id, [visible |-> TRUE, width |-> column.defaultWidth])

\* for (const column of columns) ..., from column i on
RECURSIVE HealLoop(_, _, _)
HealLoop(next, columns, i) ==
  IF i > Len(columns) THEN next
  ELSE HealLoop(HealStep(next, columns[i]), columns, i + 1)

\* the updater of the effect on [columns]: changed ? next : prev
Heal(prev, columns) == HealLoop(prev, columns, 1)

healPortfolioColumnConfig ==
  /\ portfolioColumnConfig' = Heal(portfolioColumnConfig, portfolioColumns)
  /\ download' = NoDownload
  /\ UNCHANGED <<valuationVars, instructionsVars,
                 portfolioRows, fundRows, portfolioResult, fundResult,
                 portfolioGeneratedAt, fundGeneratedAt, activeTab,
                 fundHoldingColumnConfig>>

healFundHoldingColumnConfig ==
  /\ fundHoldingColumnConfig' = Heal(fundHoldingColumnConfig, fundHoldingColumns)
  /\ download' = NoDownload
  /\ UNCHANGED <<valuationVars, instructionsVars,
                 portfolioRows, fundRows, portfolioResult, fundResult,
                 portfolioGeneratedAt, fundGeneratedAt, activeTab,
                 portfolioColumnConfig>>

(***************************************************************************)
(* Valuation requests: handlePortfolioSubmit and handleFundFetch.  Each    *)
(* handler runs up to its await in one step; what follows the await (the   *)
(* rest of try, catch and finally) is the step that ends the pending fetch *)
(***************************************************************************)
\* a key JSON.stringify leaves out
Undefined == [k |-> "undefined", n |-> 0, d |-> 1]

\* row.<field> ? Number(row.<field>) : undefined
OptionalNumber(text) == IF text # <<>> THEN NumberOfString(text) ELSE Undefined

RECURSIVE portfolioPayload_KeepsBlankRows(_, _)
portfolioPayload_KeepsBlankRows(rows, i) ==
  IF i > Len(rows) THEN <<>>
  ELSE << [ticker |-> trim(rows[i].ticker),
           shares |-> OptionalNumber(rows[i].shares),
           amount |-> OptionalNumber(rows[i].amount)] >>
       \o portfolioPayload_KeepsBlankRows(rows, i + 1)

RECURSIVE portfolioPayload(_, _)
portfolioPayload(rows, i) ==
  IF i > Len(rows) THEN <<>>
  ELSE (IF trim(rows[i].ticker) # <<>>
        THEN << [ticker |-> trim(rows[i].ticker),
                 shares |-> OptionalNumber(rows[i].shares),
                 amount |-> OptionalNumber(rows[i].amount)] >>
        ELSE <<>>)
       \o portfolioPayload(rows, i + 1)

RECURSIVE fundPayload(_, _)
fundPayload(rows, i) ==
  IF i > Len(rows) THEN <<>>
  ELSE (IF trim(rows[i].ticker) # <<>>
        THEN << [ticker |-> trim(rows[i].ticker),
                 amount |-> OptionalNumber(rows[i].amount)] >>
        ELSE <<>>)
       \o fundPayload(rows, i + 1)

setAsOfDate(value) ==
  /\ asOfDate' = value
  /\ download' = NoDownload
  /\ UNCHANGED <<portfolioRows, fundRows, portfolioResult, fundResult,
                 portfolioGeneratedAt, fundGeneratedAt, activeTab,
                 portfolioColumnConfig, fundHoldingColumnConfig,
                 portfolioLoading, fundLoading, error, portfolioRequest, fundRequest,
                 instructionsVars>>

\* faulty variant: the check for an empty payload is missing
handlePortfolioSubmit_NoTickerCheck ==
  /\ activeTab = "portfolio"
  /\ ~portfolioLoading
  /\ IF asOfDate = <<>>
     THEN /\ error' = <<"Select an as-of date before requesting valuations.">>
          /\ UNCHANGED <<portfolioLoading, portfolioRequest>>
     ELSE /\ error' = NullStr
          /\ portfolioLoading' = TRUE
          /\ portfolioRequest' = Append(portfolioRequest,
                        [as_of_date |-> asOfDate,
                         portfolio |-> portfolioPayload(portfolioRows, 1),
                         funds |-> <<>>])
  /\ download' = NoDownload
  /\ UNCHANGED <<portfolioRows, fundRows, portfolioResult, fundResult,
                 portfolioGeneratedAt, fundGeneratedAt, activeTab,
                 portfolioColumnConfig, fundHoldingColumnConfig,
                 asOfDate, fundLoading, fundRequest, instructionsVars>>

\* faulty variant: the submit button is not disabled while portfolioLoading
handlePortfolioSubmit_NotDisabled ==
  /\ activeTab = "portfolio"
  /\ IF asOfDate = <<>>
     THEN /\ error' = <<"Select an as-of date before requesting valuations.">>
          /\ UNCHANGED <<portfolioLoading, portfolioRequest>>
     ELSE IF portfolioPayload(portfolioRows, 1) = <<>>
     THEN /\ error' = <<"Add at least one company ticker.">>
          /\ UNCHANGED <<portfolioLoading, portfolioRequest>>
     ELSE /\ error' = NullStr
          /\ portfolioLoading' = TRUE
          /\ portfolioRequest' = Append(portfolioRequest,
                        [as_of_date |-> asOfDate,
                         portfolio |-> portfolioPayload(portfolioRows, 1),
                         funds |-> <<>>])
  /\ download' = NoDownload
  /\ UNCHANGED <<portfolioRows, fundRows, portfolioResult, fundResult,
                 portfolioGeneratedAt, fundGeneratedAt, activeTab,
                 portfolioColumnConfig, fundHoldingColumnConfig,
                 asOfDate, fundLoading, fundRequest, instructionsVars>>

\* the form's submit event; the submit button is rendered on the portfolio tab
\* and disabled while portfolioLoading
handlePortfolioSubmit ==
  /\ activeTab = "portfolio"
  /\ ~portfolioLoading
  /\ IF asOfDate = <<>>
     THEN /\ error' = <<"Select an as-of date before requesting valuations.">>
          /\ UNCHANGED <<portfolioLoading, portfolioRequest>>
     ELSE IF portfolioPayload(portfolioRows, 1) = <<>>
     THEN /\ error' = <<"Add at least one company ticker.">>
          /\ UNCHANGED <<portfolioLoading, portfolioRequest>>
     ELSE /\ error' = NullStr
          /\ portfolioLoading' = TRUE
          /\ portfolioRequest' = Append(portfolioRequest,
                        [as_of_date |-> asOfDate,
                         portfolio |-> portfolioPayload(portfolioRows, 1),
                         funds |-> <<>>])
  /\ download' = NoDownload
  /\ UNCHANGED <<portfolioRows, fundRows, portfolioResult, fundResult,
                 portfolioGeneratedAt, fundGeneratedAt, activeTab,
                 portfolioColumnConfig, fundHoldingColumnConfig,
                 asOfDate, fundLoading, fundRequest, instructionsVars>>

\* faulty variant: the finally block ends the loading state of both modes
handlePortfolioSubmitResolved_EndsBothLoadings(payload) ==
  /\ portfolioRequest # <<>>
  /\ portfolioResult' = payload.portfolio
  /\ portfolioGeneratedAt' = payload.generated_at
  /\ portfolioLoading' = FALSE
  /\ fundLoading' = FALSE
  /\ portfolioRequest' = Tail(portfolioRequest)
  /\ download' = NoDownload
  /\ UNCHANGED <<portfolioRows, fundRows, fundResult, fundGeneratedAt, activeTab,
                 portfolioColumnConfig, fundHoldingColumnConfig,
                 asOfDate, error, fundRequest, instructionsVars>>

\* response.ok: setPortfolioResult, setPortfolioGeneratedAt, finally
handlePortfolioSubmitResolved(payload) ==
  /\ portfolioRequest # <<>>
  /\ portfolioResult' = payload.portfolio
  /\ portfolioGeneratedAt' = payload.generated_at
  /\ portfolioLoading' = FALSE
  /\ portfolioRequest' = Tail(portfolioRequest)
  /\ download' = NoDownload
  /\ UNCHANGED <<portfolioRows, fundRows, fundResult, fundGeneratedAt, activeTab,
                 portfolioColumnConfig, fundHoldingColumnConfig,
                 asOfDate, fundLoading, error, fundRequest, instructionsVars>>

\* faulty variant: a failed request clears the results on display
handlePortfolioSubmitNotOk_ClearsResult(body) ==
  /\ portfolioRequest # <<>>
  /\ error' = IF body # <<>> THEN body ELSE <<"Unable to fetch valuations.">>
  /\ portfolioResult' = <<>>
  /\ portfolioGeneratedAt' = NullStr
  /\ portfolioLoading' = FALSE
  /\ portfolioRequest' = Tail(portfolioRequest)
  /\ download' = NoDownload
  /\ UNCHANGED <<portfolioRows, fundRows, fundResult, fundGeneratedAt, activeTab,
                 portfolioColumnConfig, fundHoldingColumnConfig,
                 asOfDate, fundLoading, fundRequest, instructionsVars>>

\* !response.ok: throw new Error(message || "Unable to fetch valuations.")
handlePortfolioSubmitNotOk(body) ==
  /\ portfolioRequest # <<>>
  /\ error' = IF body # <<>> THEN body ELSE <<"Unable to fetch valuations.">>
  /\ portfolioLoading' = FALSE
  /\ portfolioRequest' = Tail(portfolioRequest)
  /\ download' = NoDownload
  /\ UNCHANGED <<portfolioRows, fundRows, portfolioResult, fundResult,
                 portfolioGeneratedAt, fundGeneratedAt, activeTab,
                 portfolioColumnConfig, fundHoldingColumnConfig,
                 asOfDate, fundLoading, fundRequest, instructionsVars>>

\* fetch rejects with an Error (no response): setError(fetchError.message)
handlePortfolioSubmitRejected(message) ==
  /\ portfolioRequest # <<>>
  /\ error' = message
  /\ portfolioLoading' = FALSE
  /\ portfolioRequest' = Tail(portfolioRequest)
  /\ download' = NoDownload
  /\ UNCHANGED <<portfolioRows, fundRows, portfolioResult, fundResult,
                 portfolioGeneratedAt, fundGeneratedAt, activeTab,
                 portfolioColumnConfig, fundHoldingColumnConfig,
                 asOfDate, fundLoading, fundRequest, instructionsVars>>

\* the Fetch Fund Holdings button, rendered on the funds tab and disabled
\* while fundLoading
handleFundFetch ==
  /\ activeTab = "funds"
  /\ ~fundLoading
  /\ IF asOfDate = <<>>
     THEN /\ error' = <<"Select an as-of date before requesting fund holdings.">>
          /\ UNCHANGED <<fundLoading, fundRequest>>
     ELSE IF fundPayload(fundRows, 1) = <<>>
     THEN /\ error' = <<"Add at least one fund or ETF ticker.">>
          /\ UNCHANGED <<fundLoading, fundRequest>>
     ELSE /\ error' = NullStr
          /\ fundLoading' = TRUE
          /\ fundRequest' = Append(fundRequest,
                   [as_of_date |-> asOfDate,
                    portfolio |-> <<>>,
                    funds |-> fundPayload(fundRows, 1)])
  /\ download' = NoDownload
  /\ UNCHANGED <<portfolioRows, fundRows, portfolioResult, fundResult,
                 portfolioGeneratedAt, fundGeneratedAt, activeTab,
                 portfolioColumnConfig, fundHoldingColumnConfig,
                 asOfDate, portfolioLoading, portfolioRequest, instructionsVars>>

handleFundFetchResolved(payload) ==
  /\ fundRequest # <<>>
  /\ fundResult' = payload.funds
  /\ fundGeneratedAt' = payload.generated_at
  /\ fundLoading' = FALSE
  /\ fundRequest' = Tail(fundRequest)
  /\ download' = NoDownload
  /\ UNCHANGED <<portfolioRows, fundRows, portfolioResult, portfolioGeneratedAt,
                 activeTab, portfolioColumnConfig, fundHoldingColumnConfig,
                 asOfDate, portfolioLoading, error, portfolioRequest, instructionsVars>>

\* !response.ok: throw new Error(message || "Unable to fetch fund holdings.")
handleFundFetchNotOk(body) ==
  /\ fundRequest # <<>>
  /\ error' = IF body # <<>> THEN body ELSE <<"Unable to fetch fund holdings.">>
  /\ fundLoading' = FALSE
  /\ fundRequest' = Tail(fundRequest)
  /\ download' = NoDownload
  /\ UNCHANGED <<portfolioRows, fundRows, portfolioResult, fundResult,
                 portfolioGeneratedAt, fundGeneratedAt, activeTab,
                 portfolioColumnConfig, fundHoldingColumnConfig,
                 asOfDate, portfolioLoading, portfolioRequest, instructionsVars>>

handleFundFetchRejected(message) ==
  /\ fundRequest # <<>>
  /\ error' = message
  /\ fundLoading' = FALSE
  /\ fundRequest' = Tail(fundRequest)
  /\ download' = NoDownload
  /\ UNCHANGED <<portfolioRows, fundRows, portfolioResult, fundResult,
                 portfolioGeneratedAt, fundGeneratedAt, activeTab,
                 portfolioColumnConfig, fundHoldingColumnConfig,
                 asOfDate, portfolioLoading, portfolioRequest, instructionsVars>>

(***************************************************************************)
(* The instructions panel: the effect on [instructionsOpen,                *)
(* instructionsContent] that runs loadInstructions(), its cleanup, the     *)
(* View/Hide Instructions button and Try again.  loads holds one record    *)
(* per loadInstructions() call that has not returned: aborted is           *)
(* controller.signal.aborted, abortedByCleanup the closure's flag, and     *)
(* responded says that fetch has resolved and the call awaits the body.    *)
(***************************************************************************)
INSTRUCTIONS_FALLBACK_MESSAGE ==
  <<"Instructions could not be loaded automatically.", NEWLINE, NEWLINE,
    "You can open the markdown guide in a new tab via the button above or review the project README.">>

\* faulty variant: the cleanup aborts nothing
Cleanup_AbortsNothing(runs) == runs

\* the effect's cleanup: abortedByCleanup = true; controller.abort()
Cleanup(runs) ==
  [i \in DOMAIN runs |->
     [runs[i] EXCEPT !.aborted = TRUE, !.abortedByCleanup = TRUE]]

\* faulty variant: the body does not look at instructionsContent, so the
\* fallback content of a failed call starts the next call
Effect_RetriesOnFailure(changed, open, content, errorText, loading, runs) ==
  IF ~changed
  THEN [content |-> content, error |-> errorText, loading |-> loading, loads |-> runs]
  ELSE IF open
  THEN [content |-> content, error |-> NullStr, loading |-> TRUE,
        loads |-> Append(Cleanup(runs), [aborted |-> FALSE, abortedByCleanup |-> FALSE,
                                   responded |-> FALSE])]
  ELSE [content |-> content, error |-> errorText,
        loading |-> IF runs # <<>> THEN FALSE ELSE loading,
        loads |-> Cleanup(runs)]

\* One pass of the effect after a render with the given state: when a
\* dependency changed, the cleanup of the previous pass and then the body.
\* The cleanup's setInstructionsLoading(false) writes only while its call is
\* pending; afterwards the call's finally block has already written false.
Effect(changed, open, content, errorText, loading, runs) ==
  IF ~changed
  THEN [content |-> content, error |-> errorText, loading |-> loading, loads |-> runs]
  ELSE IF open /\ content = NullStr
  THEN [content |-> content, error |-> NullStr, loading |-> TRUE,
        loads |-> Append(Cleanup(runs), [aborted |-> FALSE, abortedByCleanup |-> FALSE,
                                   responded |-> FALSE])]
  ELSE [content |-> content, error |-> errorText,
        loading |-> IF runs # <<>> THEN FALSE ELSE loading,
        loads |-> Cleanup(runs)]

\* the state writes of an action on the panel, the effect's pass included
Rendered(open, after) ==
  /\ instructionsOpen' = open
  /\ instructionsContent' = after.content
  /\ instructionsError' = after.error
  /\ instructionsLoading' = after.loading
  /\ loads' = after.loads
  /\ download' = NoDownload
  /\ UNCHANGED <<portfolioRows, fundRows, portfolioResult, fundResult,
                 portfolioGeneratedAt, fundGeneratedAt, activeTab,
                 portfolioColumnConfig, fundHoldingColumnConfig, valuationVars>>

\* the View Instructions / Hide Instructions button
toggleInstructions ==
  Rendered(~instructionsOpen,
           Effect(TRUE, ~instructionsOpen, instructionsContent,
                  IF ~instructionsOpen THEN NullStr ELSE instructionsError,
                  instructionsLoading, loads))

\* the Try again button, rendered next to the error of the open panel
tryAgain ==
  /\ instructionsOpen
  /\ instructionsError # NullStr
  /\ Rendered(instructionsOpen,
              Effect(instructionsContent # NullStr, instructionsOpen, NullStr,
                     NullStr, instructionsLoading, loads))

Without(runs, i) == SubSeq(runs, 1, i - 1) \o SubSeq(runs, i + 1, Len(runs))

\* what the fetch of a call ends with
TextOutcome(text) == [kind |-> "text", text |-> text, message |-> <<>>]

StatusOutcome(status) ==
  [kind |-> "status", text |-> <<>>,
   message |-> <<"Unable to load instructions (status ", status, ").">>]

RejectedOutcome(message) == [kind |-> "rejected", text |-> <<>>, message |-> message]

\* faulty variant: the text of a response is shown without looking at
\* controller.signal.aborted
Settled_IgnoresAbort(run, outcome) ==
  IF outcome.kind = "text"
  THEN [content |-> outcome.text, error |-> instructionsError]
  ELSE IF run.aborted /\ run.abortedByCleanup
  THEN [content |-> instructionsContent, error |-> instructionsError]
  ELSE [content |-> IF instructionsContent # NullStr THEN instructionsContent
                    ELSE INSTRUCTIONS_FALLBACK_MESSAGE,
        error |-> IF run.aborted
                  THEN <<"Timed out while loading instructions. Please try again.">>
                  ELSE outcome.message]

\* the rest of loadInstructions() after its await: try, catch and finally
Settled(run, outcome) ==
  IF outcome.kind = "text"
  THEN [content |-> IF ~run.aborted THEN outcome.text ELSE instructionsContent,
        error |-> instructionsError]
  ELSE IF run.aborted /\ run.abortedByCleanup
  THEN [content |-> instructionsContent, error |-> instructionsError]
  ELSE [content |-> IF instructionsContent # NullStr THEN instructionsContent
                    ELSE INSTRUCTIONS_FALLBACK_MESSAGE,
        error |-> IF run.aborted
                  THEN <<"Timed out while loading instructions. Please try again.">>
                  ELSE outcome.message]

\* loadInstructions() call i returns with the given outcome of its fetch
Returns(i, run, outcome) ==
  Rendered(instructionsOpen,
           Effect(Settled(run, outcome).content # instructionsContent,
                  instructionsOpen, Settled(run, outcome).content,
                  Settled(run, outcome).error, FALSE, Without(loads, i)))

\* fetch of a call that was not aborted resolves with a success status:
\* window.clearTimeout(timeoutId), and the call awaits response.text()
loadInstructionsResponds(i) ==
  /\ i \in DOMAIN loads
  /\ ~loads[i].aborted
  /\ ~loads[i].responded
  /\ loads' = [loads EXCEPT ![i].responded = TRUE]
  /\ download' = NoDownload
  /\ UNCHANGED <<portfolioRows, fundRows, portfolioResult, fundResult,
                 portfolioGeneratedAt, fundGeneratedAt, activeTab,
                 portfolioColumnConfig, fundHoldingColumnConfig, valuationVars,
                 instructionsOpen, instructionsContent, instructionsLoading,
                 instructionsError>>

\* a call that was not aborted leaves its await: fetch resolves with a
\* non-success status or rejects, or response.text() resolves or rejects
loadInstructionsSettles(i, outcome) ==
  /\ i \in DOMAIN loads
  /\ ~loads[i].aborted
  /\ outcome.kind = "text" => loads[i].responded
  /\ outcome.kind = "status" => ~loads[i].responded
  /\ Returns(i, loads[i], outcome)

\* the 8000 ms timer fires before fetch has resolved:
\* controller.abort(), and fetch rejects
loadInstructionsTimesOut(i) ==
  /\ i \in DOMAIN loads
  /\ ~loads[i].aborted
  /\ ~loads[i].responded
  /\ Returns(i, [loads[i] EXCEPT !.aborted = TRUE],
             RejectedOutcome(<<"The user aborted a request.">>))

\* a call that the cleanup aborted returns
loadInstructionsAfterCleanup(i, outcome) ==
  /\ i \in DOMAIN loads
  /\ loads[i].abortedByCleanup
  /\ Returns(i, loads[i], outcome)

\* The calls the cleanup aborted return in the microtasks of the task that
\* ran the cleanup, before the next event, timer or response is handled.
NoAbortedLoad == \A i \in DOMAIN loads : ~loads[i].aborted

(***************************************************************************)
(* The valuation responses the service may send (ValuationResponse)        *)
(***************************************************************************)
Timestamp1 == <<"2024-01-02", "T", "03", ":", "04", ":", "05.000", "Z">>

Timestamp2 == <<"2024-06-30", "T", "00", ":", "00", ":", "00.000", "Z">>

CompanyAcme ==
  [ticker |-> <<"A">>,
   company_name |-> <<"Acme", ",", " ", "Inc.", " ", QUOTE, "East", QUOTE>>,
   currency |-> <<"USD">>,
   cash_and_equivalents |-> Num(100, 1), receivables |-> Num(50, 1),
   inventories |-> Num(25, 1), market_price |-> Num(35, 2),
   shares_outstanding |-> Num(1000, 1), cri_per_share |-> Num(175, 1000),
   cri_to_market_price_ratio |-> Num(1, 100), warnings |-> <<>>]

CompanyLower ==
  [ticker |-> <<"a">>, company_name |-> NullStr, currency |-> NullStr,
   cash_and_equivalents |-> NullNum, receivables |-> Num(1234567, 1),
   inventories |-> NullNum, market_price |-> NullNum,
   shares_outstanding |-> NullNum, cri_per_share |-> NullNum,
   cri_to_market_price_ratio |-> Num(1, 50),
   warnings |-> << <<"No", " ", "price">>, <<"Stale", " ", "shares">> >>]

CompanyB ==
  [ticker |-> <<"B">>, company_name |-> <<"Bee", " ", QUOTE, "B", QUOTE>>,
   currency |-> <<"EUR">>,
   cash_and_equivalents |-> Num(0, 1), receivables |-> NullNum,
   inventories |-> NullNum, market_price |-> Num(5, 1),
   shares_outstanding |-> NullNum, cri_per_share |-> NullNum,
   cri_to_market_price_ratio |-> NullNum,
   warnings |-> << <<"Missing", ",", " ", "ratio">> >>]

CompanyPadded ==
  [ticker |-> <<" ", "A">>, company_name |-> NullStr, currency |-> NullStr,
   cash_and_equivalents |-> NullNum, receivables |-> NullNum,
   inventories |-> NullNum, market_price |-> NullNum,
   shares_outstanding |-> NullNum, cri_per_share |-> NullNum,
   cri_to_market_price_ratio |-> Num(0, 1), warnings |-> <<>>]

CompanyBlank ==
  [ticker |-> <<>>, company_name |-> NullStr, currency |-> NullStr,
   cash_and_equivalents |-> NullNum, receivables |-> NullNum,
   inventories |-> NullNum, market_price |-> NullNum,
   shares_outstanding |-> NullNum, cri_per_share |-> NullNum,
   cri_to_market_price_ratio |-> Num(1, 100), warnings |-> <<>>]

NoPortfolioResponse == [generated_at |-> NullStr, portfolio |-> <<>>]

PortfolioResponses ==
  { [generated_at |-> Timestamp1, portfolio |-> <<CompanyAcme>>],
    [generated_at |-> Timestamp2, portfolio |-> <<CompanyLower, CompanyB>>],
    [generated_at |-> <<"not a date">>,
     portfolio |-> <<CompanyB, CompanyAcme, CompanyBlank>>],
    [generated_at |-> Timestamp1, portfolio |-> <<CompanyPadded, CompanyLower>>] }

HoldingAcme ==
  [ticker |-> <<"A">>, name |-> <<"Acme", ",", " ", "Inc.">>, isin |-> NullStr,
   cusip |-> <<"037833100">>, weight |-> Num(6, 10), company |-> <<CompanyAcme>>,
   warnings |-> <<>>]

HoldingCash ==
  [ticker |-> NullStr, name |-> <<"Cash">>, isin |-> NullStr, cusip |-> NullStr,
   weight |-> NullNum, company |-> <<>>, warnings |-> << <<"No", NEWLINE, "ticker">> >>]

HoldingB ==
  [ticker |-> <<"B">>, name |-> <<"b">>, isin |-> <<"DE0001">>, cusip |-> NullStr,
   weight |-> Num(2, 10), company |-> <<CompanyB>>, warnings |-> <<>>]

Fund(ticker, aggregate, coverage, holdings) ==
  [ticker |-> ticker, fund_name |-> NullStr, currency |-> <<"USD">>,
   market_price |-> NullNum, price_date |-> NullStr,
   aggregate_cri_per_share |-> NullNum,
   aggregate_cri_to_market_price_ratio |-> aggregate,
   total_weight_covered |-> coverage,
   holdings |-> holdings, warnings |-> <<>>]

FundPartial == Fund(<<"A">>, Num(8, 1000), Num(8, 10), <<HoldingCash, HoldingB, HoldingAcme>>)

FundZeroCoverage == Fund(<<"B">>, Num(1, 100), Num(0, 1), <<>>)

FundNegativeCoverage == Fund(<<"a">>, Num(1, 100), Num(-1, 2), <<HoldingB>>)

FundNoCoverage == Fund(<<"B">>, Num(1, 100), NullNum, <<HoldingCash>>)

FundNoAggregate == Fund(<<"A">>, NullNum, Num(1, 2), <<>>)

FundFull == Fund(<<"b">>, Num(1, 50), Num(1, 1), <<HoldingAcme>>)

NoFundResponse == [generated_at |-> NullStr, funds |-> <<>>]

FundResponses ==
  { [generated_at |-> Timestamp1, funds |-> <<FundPartial>>],
    [generated_at |-> Timestamp2, funds |-> <<FundZeroCoverage, FundNegativeCoverage>>],
    [generated_at |-> <<"not a date">>,
     funds |-> <<FundNoCoverage, FundNoAggregate, FundFull>>],
    [generated_at |-> Timestamp2, funds |-> <<FundFull, FundPartial>>] }

(***************************************************************************)
(* Initial states                                                          *)
(***************************************************************************)
\* the state after construction (the useState initial values)
Init ==
  /\ portfolioRows = << [ticker |-> <<>>, shares |-> <<>>, amount |-> <<>>] >>
  /\ fundRows = << [ticker |-> <<>>, amount |-> <<>>] >>
  /\ portfolioResult = <<>>
  /\ fundResult = <<>>
  /\ portfolioGeneratedAt = NullStr
  /\ fundGeneratedAt = NullStr
  /\ activeTab = "portfolio"
  /\ portfolioColumnConfig = InitialColumnConfig(portfolioColumns)
  /\ fundHoldingColumnConfig = InitialColumnConfig(fundHoldingColumns)
  /\ download = NoDownload
  /\ asOfDate = <<>>
  /\ portfolioLoading = FALSE
  /\ fundLoading = FALSE
  /\ error = NullStr
  /\ portfolioRequest = <<>>
  /\ fundRequest = <<>>
  /\ instructionsOpen = FALSE
  /\ instructionsContent = NullStr
  /\ instructionsLoading = FALSE
  /\ instructionsError = NullStr
  /\ loads = <<>>

\* The page with untouched inputs on one of its tabs, after the responses the
\* tab's mode has received so far: setPortfolioResult(payload.portfolio) and
\* setPortfolioGeneratedAt(payload.generated_at), or the fund pair.
InitAfterResponse ==
  /\ portfolioRows = << [ticker |-> <<>>, shares |-> <<>>, amount |-> <<>>] >>
  /\ fundRows = << [ticker |-> <<>>, amount |-> <<>>] >>
  /\ activeTab \in {"portfolio", "funds"}
  /\ \E p \in PortfolioResponses \cup {NoPortfolioResponse},
        f \in FundResponses \cup {NoFundResponse} :
       /\ activeTab = "portfolio" => f = NoFundResponse
       /\ activeTab = "funds" => p = NoPortfolioResponse
       /\ portfolioResult = p.portfolio
       /\ portfolioGeneratedAt = p.generated_at
       /\ fundResult = f.funds
       /\ fundGeneratedAt = f.generated_at
  /\ portfolioColumnConfig = InitialColumnConfig(portfolioColumns)
  /\ fundHoldingColumnConfig = InitialColumnConfig(fundHoldingColumns)
  /\ download = NoDownload
  /\ asOfDate = <<>>
  /\ portfolioLoading = FALSE
  /\ fundLoading = FALSE
  /\ error = NullStr
  /\ portfolioRequest = <<>>
  /\ fundRequest = <<>>
  /\ instructionsOpen = FALSE
  /\ instructionsContent = NullStr
  /\ instructionsLoading = FALSE
  /\ instructionsError = NullStr
  /\ loads = <<>>

(***************************************************************************)
(* SpecZakat: the ledgers and the zakat derivations under every edit of    *)
(* the input rows of the tab that is open                                  *)
(***************************************************************************)
TickerInputs == { <<>>, <<"a">>, <<" ", "A">>, <<"B">> }

AmountInputs ==
  { <<>>, <<"2", ".", "5">>, <<"4", "0", "0">>, <<"1", "e", "9", "9", "9">> }

NextZakat ==
  \/ \E i \in 1..MaxRows, v \in TickerInputs : handlePortfolioChange(i, "ticker", v)
  \/ \E i \in 1..MaxRows, v \in AmountInputs : handlePortfolioChange(i, "amount", v)
  \/ addPortfolioRow
  \/ \E i \in 1..MaxRows : removePortfolioRow(i)
  \/ \E i \in 1..MaxRows, v \in TickerInputs : handleFundChange(i, "ticker", v)
  \/ \E i \in 1..MaxRows, v \in AmountInputs : handleFundChange(i, "amount", v)
  \/ addFundRow
  \/ \E i \in 1..MaxRows : removeFundRow(i)

SpecZakat == InitAfterResponse /\ [][NextZakat]_vars

(***************************************************************************)
(* SpecExport: column toggles, edits of the first input row and the two    *)
(* Download CSV buttons                                                    *)
(***************************************************************************)
PortfolioToggleInputs ==
  {"ticker", "company", "receivables", "cri_ratio", "zakatable_amount", "zakat_due"}

FundToggleInputs == {fundHoldingColumns[i].id : i \in 1..Len(fundHoldingColumns)}

ExportTickerInputs == { <<"a">>, <<"B">> }

ExportAmountInputs == { <<>>, <<"2", ".", "5">>, <<"4", "0", "0">> }

NextExport ==
  \/ \E v \in ExportTickerInputs : handlePortfolioChange(1, "ticker", v)
  \/ \E v \in ExportAmountInputs : handlePortfolioChange(1, "amount", v)
  \/ \E id \in PortfolioToggleInputs, visible \in BOOLEAN :
       handlePortfolioColumnVisibilityChange(id, visible)
  \/ \E id \in FundToggleInputs, visible \in BOOLEAN :
       handleFundColumnVisibilityChange(id, visible)
  \/ \E now \in ClockValues : handleDownloadPortfolio(now)
  \/ \E f \in 1..3, now \in ClockValues : handleDownloadFundHoldings(f, now)

SpecExport == InitAfterResponse /\ [][NextExport]_vars

(***************************************************************************)
(* SpecHideAll: every portfolio column checkbox and the portfolio Download *)
(* CSV button                                                              *)
(***************************************************************************)
NextHideAll ==
  \/ \E j \in 1..Len(portfolioColumns), visible \in BOOLEAN :
       handlePortfolioColumnVisibilityChange(portfolioColumns[j].id, visible)
  \/ \E now \in ClockValues : handleDownloadPortfolio(now)

SpecHideAll == InitAfterResponse /\ [][NextHideAll]_vars

(***************************************************************************)
(* SpecRequests: the two request flows from the freshly loaded page, with  *)
(* every interleaving of their starts, responses and failures              *)
(***************************************************************************)
DateInputs == { <<>>, <<"2024-06-30">> }

RequestTickerInputs == { <<>>, <<" ">>, <<"a">> }

\* response bodies of a non-success status
ErrorBodies == { <<>>, <<"Internal Server Error">> }

\* messages of the TypeError a failed fetch rejects with
RejectionMessages == { <<"Failed to fetch">> }

RequestPortfolioResponses ==
  { [generated_at |-> Timestamp1, portfolio |-> <<CompanyAcme>>],
    [generated_at |-> Timestamp2, portfolio |-> <<CompanyLower, CompanyB>>] }

RequestFundResponses ==
  { [generated_at |-> Timestamp1, funds |-> <<FundPartial>>],
    [generated_at |-> Timestamp2, funds |-> <<FundFull, FundPartial>>] }

NextRequests ==
  \/ \E tab \in {"portfolio", "funds"} : setActiveTab(tab)
  \/ \E v \in DateInputs : setAsOfDate(v)
  \/ \E v \in RequestTickerInputs : handlePortfolioChange(1, "ticker", v)
  \/ \E v \in RequestTickerInputs : handleFundChange(1, "ticker", v)
  \/ handlePortfolioSubmit
  \/ \E payload \in RequestPortfolioResponses : handlePortfolioSubmitResolved(payload)
  \/ \E body \in ErrorBodies : handlePortfolioSubmitNotOk(body)
  \/ \E message \in RejectionMessages : handlePortfolioSubmitRejected(message)
  \/ handleFundFetch
  \/ \E payload \in RequestFundResponses : handleFundFetchResolved(payload)
  \/ \E body \in ErrorBodies : handleFundFetchNotOk(body)
  \/ \E message \in RejectionMessages : handleFundFetchRejected(message)

SpecRequests == Init /\ [][NextRequests]_vars

(***************************************************************************)
(* SpecLoading: the requests of both modes with every way a request ends:  *)
(* a parsed body, a non-success status, a rejected fetch, and a body that  *)
(* response.json() cannot parse, which rejects with a SyntaxError and      *)
(* takes the catch branch as a rejected fetch does.  The network ends      *)
(* every request it was given, hence the weak fairness of the outcomes.    *)
(***************************************************************************)
MalformedBodyMessages == { <<"Unexpected token '<', \"<html>\" is not valid JSON">> }

PortfolioOutcome ==
  \/ \E payload \in RequestPortfolioResponses : handlePortfolioSubmitResolved(payload)
  \/ \E body \in ErrorBodies : handlePortfolioSubmitNotOk(body)
  \/ \E message \in RejectionMessages \cup MalformedBodyMessages :
       handlePortfolioSubmitRejected(message)

FundOutcome ==
  \/ \E payload \in RequestFundResponses : handleFundFetchResolved(payload)
  \/ \E body \in ErrorBodies : handleFundFetchNotOk(body)
  \/ \E message \in RejectionMessages \cup MalformedBodyMessages :
       handleFundFetchRejected(message)

NextLoading ==
  \/ \E tab \in {"portfolio", "funds"} : setActiveTab(tab)
  \/ setAsOfDate(<<"2024-06-30">>)
  \/ \E v \in {<<>>, <<"a">>} : handlePortfolioChange(1, "ticker", v)
  \/ \E v \in {<<>>, <<"a">>} : handleFundChange(1, "ticker", v)
  \/ handlePortfolioSubmit
  \/ PortfolioOutcome
  \/ handleFundFetch
  \/ FundOutcome

SpecLoading ==
  /\ Init
  /\ [][NextLoading]_vars
  /\ WF_vars(PortfolioOutcome)
  /\ WF_vars(FundOutcome)

(***************************************************************************)
(* SpecInstructions: the instructions panel next to a portfolio request,   *)
(* with every outcome of the guide's fetch                                 *)
(***************************************************************************)
\* bodies of a 200 response of /api/usage-guide
GuideTexts == { <<"# Usage guide">>, <<>> }

LoadOutcomes ==
  {TextOutcome(text) : text \in GuideTexts}
    \cup {StatusOutcome(<<"500">>), RejectedOutcome(<<"Failed to fetch">>)}

\* what the fetch of a call hands back once its signal is aborted
AbortedLoadOutcomes ==
  LoadOutcomes \cup {RejectedOutcome(<<"The user aborted a request.">>)}

NextInstructions ==
  \/ \E i \in DOMAIN loads, outcome \in AbortedLoadOutcomes :
       loadInstructionsAfterCleanup(i, outcome)
  \/ NoAbortedLoad /\ toggleInstructions
  \/ NoAbortedLoad /\ tryAgain
  \/ NoAbortedLoad /\ \E i \in DOMAIN loads, outcome \in LoadOutcomes :
       loadInstructionsSettles(i, outcome)
  \/ NoAbortedLoad /\ \E i \in DOMAIN loads : loadInstructionsTimesOut(i)
  \/ NoAbortedLoad /\ \E i \in DOMAIN loads : loadInstructionsResponds(i)
  \/ NoAbortedLoad /\ \E v \in DateInputs : setAsOfDate(v)
  \/ NoAbortedLoad /\ \E v \in RequestTickerInputs : handlePortfolioChange(1, "ticker", v)
  \/ NoAbortedLoad /\ handlePortfolioSubmit
  \/ NoAbortedLoad /\ \E payload \in RequestPortfolioResponses :
       handlePortfolioSubmitResolved(payload)
  \/ NoAbortedLoad /\ \E body \in ErrorBodies : handlePortfolioSubmitNotOk(body)

SpecInstructions == Init /\ [][NextInstructions]_vars

\* An armed timer fires, and the continuation of an aborted call runs.  The
\* server and the user are under no obligation to do anything.
SpecInstructionsFair ==
  /\ SpecInstructions
  /\ WF_vars(\E i \in DOMAIN loads : loadInstructionsTimesOut(i))
  /\ WF_vars(\E i \in DOMAIN loads, outcome \in AbortedLoadOutcomes :
               loadInstructionsAfterCleanup(i, outcome))

(***************************************************************************)
(* SpecColumnConfig: the column-configuration updaters as functions of     *)
(* any configuration: the page with results on its open tab and a          *)
(* configuration that lacks entries, under visibility and width changes    *)
(* for ids of the definitions and an id of none, and the healing effect    *)
(***************************************************************************)
ConfigPortfolioIds == {"ticker", "company", "cri_ratio"}

ConfigFundIds == {"holding", "weight", "cri_ratio"}

\* an id no column definition has
UnknownColumnId == "notes"

\* ends of the width slider's range
WidthInputs == {96, 320}

Restrict(map, keys) == [key \in DOMAIN map \cap keys |-> map[key]]

InitColumnConfig ==
  /\ portfolioRows = << [ticker |-> <<>>, shares |-> <<>>, amount |-> <<>>] >>
  /\ fundRows = << [ticker |-> <<>>, amount |-> <<>>] >>
  /\ activeTab \in {"portfolio", "funds"}
  /\ portfolioResult = IF activeTab = "portfolio" THEN <<CompanyAcme>> ELSE <<>>
  /\ portfolioGeneratedAt = IF activeTab = "portfolio" THEN Timestamp1 ELSE NullStr
  /\ fundResult = IF activeTab = "funds" THEN <<FundPartial>> ELSE <<>>
  /\ fundGeneratedAt = IF activeTab = "funds" THEN Timestamp1 ELSE NullStr
  /\ \E missing \in SUBSET ConfigPortfolioIds :
       /\ activeTab = "funds" => missing = {}
       /\ portfolioColumnConfig =
            Restrict(InitialColumnConfig(portfolioColumns),
                     DOMAIN InitialColumnConfig(portfolioColumns) \ missing)
  /\ \E missing \in SUBSET ConfigFundIds :
       /\ activeTab = "portfolio" => missing = {}
       /\ fundHoldingColumnConfig =
            Restrict(InitialColumnConfig(fundHoldingColumns),
                     DOMAIN InitialColumnConfig(fundHoldingColumns) \ missing)
  /\ download = NoDownload
  /\ asOfDate = <<>>
  /\ portfolioLoading = FALSE
  /\ fundLoading = FALSE
  /\ error = NullStr
  /\ portfolioRequest = <<>>
  /\ fundRequest = <<>>
  /\ instructionsOpen = FALSE
  /\ instructionsContent = NullStr
  /\ instructionsLoading = FALSE
  /\ instructionsError = NullStr
  /\ loads = <<>>

NextColumnConfig ==
  \/ \E id \in ConfigPortfolioIds \cup {UnknownColumnId}, visible \in BOOLEAN :
       handlePortfolioColumnVisibilityChange(id, visible)
  \/ \E id \in ConfigPortfolioIds \cup {UnknownColumnId}, width \in WidthInputs :
       handlePortfolioColumnWidthChange(id, width)
  \/ healPortfolioColumnConfig
  \/ \E id \in ConfigFundIds \cup {UnknownColumnId}, visible \in BOOLEAN :
       handleFundColumnVisibilityChange(id, visible)
  \/ \E id \in ConfigFundIds \cup {UnknownColumnId}, width \in WidthInputs :
       handleFundColumnWidthChange(id, width)
  \/ healFundHoldingColumnConfig

SpecColumnConfig == InitColumnConfig /\ [][NextColumnConfig]_vars

(***************************************************************************)
(* SpecColumnWidth: the width updaters as functions of any width, also     *)
(* widths the slider cannot produce                                        *)
(***************************************************************************)
AnyWidthInputs == {0, 40, 200, 1000}

WidthPortfolioIds == {"ticker", "company", UnknownColumnId}

WidthFundIds == {"holding", "weight", UnknownColumnId}

NextColumnWidth ==
  \/ \E id \in WidthPortfolioIds, width \in AnyWidthInputs :
       handlePortfolioColumnWidthChange(id, width)
  \/ \E id \in WidthPortfolioIds, visible \in BOOLEAN :
       handlePortfolioColumnVisibilityChange(id, visible)
  \/ \E id \in WidthFundIds, width \in AnyWidthInputs :
       handleFundColumnWidthChange(id, width)
  \/ \E id \in WidthFundIds, visible \in BOOLEAN :
       handleFundColumnVisibilityChange(id, visible)

SpecColumnWidth == InitColumnConfig /\ [][NextColumnWidth]_vars

(***************************************************************************)
(* SpecColumnLifetime: the two column configs over the life of the page,   *)
(* from the state after construction: a date and tickers typed, requests   *)
(* sent and answered, tabs switched, columns hidden, shown and resized,    *)
(* and the healing effects                                                 *)
(***************************************************************************)
LifetimePortfolioIds == {"ticker", "cri_ratio"}

LifetimeFundIds == {"weight"}

NextColumnLifetime ==
  \/ \E tab \in {"portfolio", "funds"} : setActiveTab(tab)
  \/ setAsOfDate(<<"2024-06-30">>)
  \/ handlePortfolioChange(1, "ticker", <<"a">>)
  \/ handlePortfolioSubmit
  \/ \E payload \in RequestPortfolioResponses : handlePortfolioSubmitResolved(payload)
  \/ handleFundChange(1, "ticker", <<"a">>)
  \/ handleFundFetch
  \/ \E payload \in RequestFundResponses : handleFundFetchResolved(payload)
  \/ \E id \in LifetimePortfolioIds, visible \in BOOLEAN :
       handlePortfolioColumnVisibilityChange(id, visible)
  \/ \E id \in LifetimePortfolioIds, width \in WidthInputs :
       handlePortfolioColumnWidthChange(id, width)
  \/ healPortfolioColumnConfig
  \/ \E id \in LifetimeFundIds, visible \in BOOLEAN :
       handleFundColumnVisibilityChange(id, visible)
  \/ \E id \in LifetimeFundIds, width \in WidthInputs :
       handleFundColumnWidthChange(id, width)
  \/ healFundHoldingColumnConfig

SpecColumnLifetime == Init /\ [][NextColumnLifetime]_vars

(***************************************************************************)
(* SpecHoldings: the holdings table of a fund for every list of holdings   *)
(* the service may send, under changes of the columns on display           *)
(***************************************************************************)
MaxHoldings == 3

HoldingTie ==
  [ticker |-> <<"C">>, name |-> <<"c">>, isin |-> NullStr, cusip |-> NullStr,
   weight |-> Num(2, 10), company |-> <<>>, warnings |-> <<>>]

HoldingUnlisted ==
  [ticker |-> NullStr, name |-> <<"Other">>, isin |-> NullStr, cusip |-> NullStr,
   weight |-> NullNum, company |-> <<>>, warnings |-> <<>>]

HoldingChoices == {HoldingAcme, HoldingB, HoldingCash, HoldingTie, HoldingUnlisted}

HoldingLists ==
  UNION {[1..n -> HoldingChoices] : n \in 0..MaxHoldings}

InitHoldings ==
  /\ portfolioRows = << [ticker |-> <<>>, shares |-> <<>>, amount |-> <<>>] >>
  /\ fundRows = << [ticker |-> <<>>, amount |-> <<>>] >>
  /\ activeTab = "funds"
  /\ portfolioResult = <<>>
  /\ portfolioGeneratedAt = NullStr
  /\ \E holdings \in HoldingLists :
       fundResult = << Fund(<<"A">>, Num(8, 1000), Num(8, 10), holdings) >>
  /\ fundGeneratedAt = Timestamp1
  /\ portfolioColumnConfig = InitialColumnConfig(portfolioColumns)
  /\ fundHoldingColumnConfig = InitialColumnConfig(fundHoldingColumns)
  /\ download = NoDownload
  /\ asOfDate = <<>>
  /\ portfolioLoading = FALSE
  /\ fundLoading = FALSE
  /\ error = NullStr
  /\ portfolioRequest = <<>>
  /\ fundRequest = <<>>
  /\ instructionsOpen = FALSE
  /\ instructionsContent = NullStr
  /\ instructionsLoading = FALSE
  /\ instructionsError = NullStr
  /\ loads = <<>>

NextHoldings ==
  \E id \in {"holding", "weight"}, visible \in BOOLEAN :
    handleFundColumnVisibilityChange(id, visible)

SpecHoldings == InitHoldings /\ [][NextHoldings]_vars

(***************************************************************************)
(* SpecDerived: requests, responses and edits of the amount rows in one    *)
(* behaviour, from the freshly loaded page                                 *)
(***************************************************************************)
DerivedAmountInputs == { <<"2", ".", "5">>, <<"4", "0", "0">> }

\* the freshly loaded page on either tab
InitOnTab ==
  /\ portfolioRows = << [ticker |-> <<>>, shares |-> <<>>, amount |-> <<>>] >>
  /\ fundRows = << [ticker |-> <<>>, amount |-> <<>>] >>
  /\ portfolioResult = <<>>
  /\ fundResult = <<>>
  /\ portfolioGeneratedAt = NullStr
  /\ fundGeneratedAt = NullStr
  /\ activeTab \in {"portfolio", "funds"}
  /\ portfolioColumnConfig = InitialColumnConfig(portfolioColumns)
  /\ fundHoldingColumnConfig = InitialColumnConfig(fundHoldingColumns)
  /\ download = NoDownload
  /\ asOfDate = <<>>
  /\ portfolioLoading = FALSE
  /\ fundLoading = FALSE
  /\ error = NullStr
  /\ portfolioRequest = <<>>
  /\ fundRequest = <<>>
  /\ instructionsOpen = FALSE
  /\ instructionsContent = NullStr
  /\ instructionsLoading = FALSE
  /\ instructionsError = NullStr
  /\ loads = <<>>

NextDerived ==
  \/ setAsOfDate(<<"2024-06-30">>)
  \/ \E i \in 1..MaxRows : handlePortfolioChange(i, "ticker", <<"a">>)
  \/ \E i \in 1..MaxRows, v \in DerivedAmountInputs :
       handlePortfolioChange(i, "amount", v)
  \/ addPortfolioRow
  \/ \E i \in 1..MaxRows : removePortfolioRow(i)
  \/ handlePortfolioSubmit
  \/ \E payload \in RequestPortfolioResponses : handlePortfolioSubmitResolved(payload)
  \/ \E i \in 1..MaxRows : handleFundChange(i, "ticker", <<"a">>)
  \/ \E i \in 1..MaxRows, v \in DerivedAmountInputs : handleFundChange(i, "amount", v)
  \/ addFundRow
  \/ \E i \in 1..MaxRows : removeFundRow(i)
  \/ handleFundFetch
  \/ \E payload \in RequestFundResponses : handleFundFetchResolved(payload)

SpecDerived == InitOnTab /\ [][NextDerived]_vars

(***************************************************************************)
(* SpecRequestShape: the bodies the two handlers send, from rows whose     *)
(* tickers are typed with and without surrounding blanks                   *)
(***************************************************************************)
ShapeTickerInputs == { <<>>, <<" ">>, <<" ", "a", " ">>, <<"b">> }

NextRequestShape ==
  \/ setAsOfDate(<<"2024-06-30">>)
  \/ \E i \in 1..MaxRows, v \in ShapeTickerInputs : handlePortfolioChange(i, "ticker", v)
  \/ addPortfolioRow
  \/ handlePortfolioSubmit
  \/ \E message \in {<<"Failed to fetch">>} : handlePortfolioSubmitRejected(message)
  \/ \E i \in 1..MaxRows, v \in ShapeTickerInputs : handleFundChange(i, "ticker", v)
  \/ addFundRow
  \/ handleFundFetch
  \/ \E message \in {<<"Failed to fetch">>} : handleFundFetchRejected(message)

SpecRequestShape == InitOnTab /\ [][NextRequestShape]_vars

(***************************************************************************)
(* SpecLedgers: results of both modes on the page, for the same ticker,    *)
(* and edits of the first row of either tab                                *)
(***************************************************************************)
InitBothResults ==
  /\ portfolioRows = << [ticker |-> <<>>, shares |-> <<>>, amount |-> <<>>] >>
  /\ fundRows = << [ticker |-> <<>>, amount |-> <<>>] >>
  /\ portfolioResult = <<CompanyAcme, CompanyB>>
  /\ fundResult = <<FundPartial, FundFull>>
  /\ portfolioGeneratedAt = Timestamp1
  /\ fundGeneratedAt = Timestamp2
  /\ activeTab \in {"portfolio", "funds"}
  /\ portfolioColumnConfig = InitialColumnConfig(portfolioColumns)
  /\ fundHoldingColumnConfig = InitialColumnConfig(fundHoldingColumns)
  /\ download = NoDownload
  /\ asOfDate = <<"2024-06-30">>
  /\ portfolioLoading = FALSE
  /\ fundLoading = FALSE
  /\ error = NullStr
  /\ portfolioRequest = <<>>
  /\ fundRequest = <<>>
  /\ instructionsOpen = FALSE
  /\ instructionsContent = NullStr
  /\ instructionsLoading = FALSE
  /\ instructionsError = NullStr
  /\ loads = <<>>

LedgerTickerInputs == { <<"a">>, <<"B">> }

NextLedgers ==
  \/ \E tab \in {"portfolio", "funds"} : setActiveTab(tab)
  \/ \E v \in LedgerTickerInputs : handlePortfolioChange(1, "ticker", v)
  \/ \E v \in DerivedAmountInputs : handlePortfolioChange(1, "amount", v)
  \/ \E v \in LedgerTickerInputs : handleFundChange(1, "ticker", v)
  \/ \E v \in DerivedAmountInputs : handleFundChange(1, "amount", v)

SpecLedgers == InitBothResults /\ [][NextLedgers]_vars

(***************************************************************************)
(* Properties of the ledgers and of the zakat derivations                  *)
(***************************************************************************)
\* the key a row's ticker is filed under
RowKey(row) == trim(toUpperCase(row.ticker))

\* the rows filed under key that carry an amount: a finite number
AmountRows(rows, key) ==
  {i \in 1..Len(rows) : RowKey(rows[i]) = key
                        /\ NumberOfString(rows[i].amount).k = "num"}

RECURSIVE SumOfAmounts(_, _)
SumOfAmounts(rows, indices) ==
  IF indices = {} THEN Num(0, 1)
  ELSE LET i == CHOOSE x \in indices : TRUE
           a == NumberOfString(rows[i].amount)
           rest == SumOfAmounts(rows, indices \ {i})
       IN  Num(a.n * rest.d + rest.n * a.d, a.d * rest.d)

LedgerIsSumOfRows(rows, ledger) ==
  /\ \A i \in 1..Len(rows) :
       (RowKey(rows[i]) # <<>> /\ AmountRows(rows, RowKey(rows[i])) # {})
         => RowKey(rows[i]) \in DOMAIN ledger
  /\ \A key \in DOMAIN ledger :
       /\ key # <<>>
       /\ AmountRows(rows, key) # {}
       /\ ledger[key] = SumOfAmounts(rows, AmountRows(rows, key))

\* C1: each ledger maps every non-blank ticker (trimmed, upper-cased) that has
\* an amount to the sum of the amounts of all rows with that ticker, rows
\* whose tickers differ only in case or surrounding blanks included; a row
\* whose amount is not a finite number carries no amount.
C1_LedgerSumsRowsPerTicker ==
  /\ LedgerIsSumOfRows(portfolioRows, portfolioAmountMap)
  /\ LedgerIsSumOfRows(fundRows, fundAmountMap)

\* two rows entered as "a" and " A", with amounts 5 and 2.5, are one entry 7.5
C1_Witness ==
  /\ Len(portfolioRows) = 2
  /\ portfolioRows[1].ticker = <<"A">> /\ portfolioRows[1].amount = <<"4", "0", "0">>
  /\ portfolioRows[2].ticker = <<" ", "A">>
  /\ portfolioRows[2].amount = <<"2", ".", "5">>
  /\ DOMAIN portfolioAmountMap = { <<"A">> }
  /\ portfolioAmountMap[<<"A">>] = Num(805, 2)

\* a * b = c over the rationals, by cross-multiplication
IsProduct(c, a, b) ==
  /\ c.k = "num" /\ a.k = "num" /\ b.k = "num"
  /\ c.n * a.d * b.d = a.n * b.n * c.d

\* C2: a company's zakatable amount is (portfolio-ledger amount of its
\* upper-cased ticker) x (its cri_to_market_price_ratio) when the ledger holds
\* the ticker and the ratio is present, and unknown (null, not 0) otherwise.
C2_PortfolioZakatableAmount ==
  \A i \in 1..Len(portfolioResult) :
    LET company == portfolioResult[i]
        key == toUpperCase(company.ticker)
        ratio == company.cri_to_market_price_ratio
        z == computePortfolioZakatableAmount(company)
    IN  IF AmountRows(portfolioRows, key) # {} /\ key # <<>> /\ ratio.k = "num"
        THEN IsProduct(z, SumOfAmounts(portfolioRows, AmountRows(portfolioRows, key)),
                       ratio)
        ELSE z = NullNum

\* ledger amount 400 and ratio 0.01 give 4, next to a company whose
\* ticker the ledger does not hold
C2_Witness ==
  /\ \E i \in 1..Len(portfolioResult) :
       /\ portfolioResult[i].cri_to_market_price_ratio = Num(1, 100)
       /\ MapHas(portfolioAmountMap, toUpperCase(portfolioResult[i].ticker))
       /\ portfolioAmountMap[toUpperCase(portfolioResult[i].ticker)] = Num(400, 1)
       /\ computePortfolioZakatableAmount(portfolioResult[i]) = Num(4, 1)
  /\ \E i \in 1..Len(portfolioResult) :
       /\ portfolioResult[i].cri_to_market_price_ratio # NullNum
       /\ computePortfolioZakatableAmount(portfolioResult[i]) = NullNum

BlankString(s) == trim(s) = <<>>

\* the rows of a ticker, and whether none of them carries a usable amount
RowsOfTicker(rows, key) == {i \in 1..Len(rows) : RowKey(rows[i]) = key}

NoUsableAmount(rows, key) ==
  /\ RowsOfTicker(rows, key) # {}
  /\ \A i \in RowsOfTicker(rows, key) :
       BlankString(rows[i].amount) \/ NumberOfString(rows[i].amount).k # "num"

\* C3: when every row of a ticker has a blank amount or an amount that is not
\* a finite number, the rows add no entry to the ledger and the ticker's
\* Zakatable Amount and Zakat Due cells show the placeholder, not 0.
C3_NoAmountMeansUnknown ==
  \A i \in 1..Len(portfolioResult) :
    LET company == portfolioResult[i]
        key == toUpperCase(company.ticker)
    IN  NoUsableAmount(portfolioRows, key) =>
          /\ ~MapHas(portfolioAmountMap, key)
          /\ portfolioRenderCell("zakatable_amount", company) = <<EMDASH>>
          /\ portfolioRenderCell("zakat_due", company) = <<EMDASH>>

\* C4: on the portfolio path and on the fund path, zakat due is the zakatable
\* amount x 0.025 whenever the zakatable amount is defined, and unknown
\* exactly when the zakatable amount is unknown.
C4_ZakatDueIsRateTimesZakatable ==
  /\ \A i \in 1..Len(portfolioResult) :
       LET z == computePortfolioZakatableAmount(portfolioResult[i])
           due == computePortfolioZakatDue(portfolioResult[i])
       IN  IF z = NullNum THEN due = NullNum
           ELSE /\ due.k = "num" /\ z.k = "num"
                /\ due.n * z.d * 1000 = z.n * 25 * due.d
  /\ \A i \in 1..Len(fundResult) :
       LET z == fundZakatableAmount(fundResult[i])
           due == fundZakatDue(fundResult[i])
       IN  IF z = NullNum THEN due = NullNum
           ELSE /\ due.k = "num" /\ z.k = "num"
                /\ due.n * z.d * 1000 = z.n * 25 * due.d

\* a fund with zakatable amount 500 and zakat due 12.5
C4_Witness ==
  \E i \in 1..Len(fundResult) :
    /\ fundZakatableAmount(fundResult[i]) = Num(4, 1)
    /\ fundZakatDue(fundResult[i]) = Num(1, 10)

\* C5: a fund's extrapolated ratio is aggregate / total_weight_covered when
\* both are present and the coverage is > 0, and unknown when the coverage is
\* 0, negative or absent or the aggregate is absent.
C5_ExtrapolatedRatio ==
  \A i \in 1..Len(fundResult) :
    LET aggregate == fundResult[i].aggregate_cri_to_market_price_ratio
        coverage == fundResult[i].total_weight_covered
        e == extrapolatedCriRatio(fundResult[i])
    IN  IF aggregate.k = "num" /\ coverage.k = "num" /\ coverage.n > 0
        THEN IsProduct(aggregate, e, coverage)
        ELSE e = NullNum

\* coverage 0 with an aggregate present and an amount entered for the fund:
\* unknown; and coverage negative
C5_Witness ==
  /\ \E i \in 1..Len(fundResult) :
       /\ fundResult[i].total_weight_covered = Num(0, 1)
       /\ fundResult[i].aggregate_cri_to_market_price_ratio = Num(1, 100)
       /\ MapHas(fundAmountMap, toUpperCase(fundResult[i].ticker))
       /\ extrapolatedCriRatio(fundResult[i]) = NullNum
       /\ extrapolatedDisplay(fundResult[i]) = <<"-">>
  /\ \E i \in 1..Len(fundResult) :
       /\ fundResult[i].total_weight_covered = Num(-1, 2)
       /\ extrapolatedCriRatio(fundResult[i]) = NullNum

\* C6: a fund's zakatable amount is (fund-ledger amount of its upper-cased
\* ticker) x (extrapolated ratio = aggregate / coverage), defined only when
\* the fund ledger holds the ticker and the extrapolated ratio is defined; the
\* raw aggregate ratio never stands in for the extrapolated one.
C6_FundZakatableAmount ==
  \A i \in 1..Len(fundResult) :
    LET fund == fundResult[i]
        key == toUpperCase(fund.ticker)
        aggregate == fund.aggregate_cri_to_market_price_ratio
        coverage == fund.total_weight_covered
        z == fundZakatableAmount(fund)
    IN  IF /\ AmountRows(fundRows, key) # {} /\ key # <<>>
           /\ aggregate.k = "num" /\ coverage.k = "num" /\ coverage.n > 0
        THEN LET amount == SumOfAmounts(fundRows, AmountRows(fundRows, key))
             IN  /\ z.k = "num"
                 /\ z.n * coverage.n * aggregate.d * amount.d
                      = amount.n * aggregate.n * coverage.d * z.d
        ELSE z = NullNum

\* aggregate 0.008, coverage 0.8, ledger amount 400: 4, not 3.2
C6_Witness ==
  \E i \in 1..Len(fundResult) :
    /\ fundResult[i].aggregate_cri_to_market_price_ratio = Num(8, 1000)
    /\ fundResult[i].total_weight_covered = Num(8, 10)
    /\ MapHas(fundAmountMap, toUpperCase(fundResult[i].ticker))
    /\ fundAmountMap[toUpperCase(fundResult[i].ticker)] = Num(400, 1)
    /\ extrapolatedCriRatio(fundResult[i]) = Num(1, 100)
    /\ fundZakatableAmount(fundResult[i]) = Num(4, 1)

(***************************************************************************)
(* Reading an emitted file back                                            *)
(***************************************************************************)
\* The records of a CSV text and their fields.  A comma or a line break
\* separates only outside quotes, that is after an even number of double
\* quotes; a field wrapped in double quotes stands for its inside with every
\* doubled quote read as one.
QuotePositions(text) == {i \in 1..Len(text) : text[i] = QUOTE}

Separators(text) ==
  {i \in 1..Len(text) :
     /\ text[i] \in {COMMA, NEWLINE}
     /\ Cardinality({k \in QuotePositions(text) : k < i}) % 2 = 0}

\* the k-th smallest element of a set of integers
Nth(S, k) == CHOOSE x \in S : Cardinality({y \in S : y < x}) = k - 1

RECURSIVE Undouble(_)
Undouble(s) ==
  IF s = <<>> THEN <<>>
  ELSE IF Len(s) >= 2 /\ s[1] = QUOTE /\ s[2] = QUOTE
       THEN <<QUOTE>> \o Undouble(SubSeq(s, 3, Len(s)))
  ELSE <<Head(s)>> \o Undouble(Tail(s))

Unquote(field) ==
  IF Len(field) >= 2 /\ field[1] = QUOTE /\ field[Len(field)] = QUOTE
  THEN Undouble(SubSeq(field, 2, Len(field) - 1))
  ELSE field

ReadCsv(text) ==
  LET seps == Separators(text)
      breaks == {0, Len(text) + 1} \cup {i \in seps : text[i] = NEWLINE}
      record(r) ==
        LET lo == Nth(breaks, r) + 1
            hi == Nth(breaks, r + 1) - 1
            cuts == {lo - 1, hi + 1} \cup {i \in seps : lo <= i /\ i <= hi}
        IN  [f \in 1..(Cardinality(cuts) - 1) |->
               Unquote(SubSeq(text, Nth(cuts, f) + 1, Nth(cuts, f + 1) - 1))]
  IN  [r \in 1..(Cardinality(breaks) - 1) |-> record(r)]

DownloadedTable == ReadCsv(download.content)

PortfolioFileEmitted ==
  /\ download.emitted
  /\ Len(download.filename) > 0
  /\ download.filename[1] = "portfolio-valuations-"

FundFileEmitted == download.emitted /\ ~PortfolioFileEmitted

\* the ids of the portfolio columns switched on, in definition order
VisiblePortfolioIds ==
  LET ids == [j \in 1..Len(portfolioColumns) |-> portfolioColumns[j].id]
      on(id) == portfolioColumnConfig[id].visible
  IN  SelectSeq(ids, on)

PortfolioLabel(id) ==
  (CHOOSE c \in {portfolioColumns[j] : j \in 1..Len(portfolioColumns)} : c.id = id).label

\* C7: display and export never diverge: for every portfolio column and every
\* result company the export value equals the rendered cell, and in an emitted
\* portfolio file the field of company i under visible column j is the text
\* the table shows in that cell (zakatable amount and zakat due included).
C7_DisplayEqualsExport ==
  /\ \A i \in 1..Len(portfolioResult), j \in 1..Len(portfolioColumns) :
       portfolioGetExportValue(portfolioColumns[j].id, portfolioResult[i])
         = portfolioRenderCell(portfolioColumns[j].id, portfolioResult[i])
  /\ PortfolioFileEmitted =>
       LET table == DownloadedTable
           ids == VisiblePortfolioIds
       IN  /\ Len(table) = Len(portfolioResult) + 1
           /\ \A i \in 1..Len(portfolioResult), j \in 1..Len(ids) :
                /\ j <= Len(table[i + 1])
                /\ table[i + 1][j] = portfolioRenderCell(ids[j], portfolioResult[i])

\* a file emitted while the ledger gives company A 400 at ratio 0.01: the
\* zakatable amount cell and field both read 4.00, the zakat due 0.10
C7_Witness ==
  /\ PortfolioFileEmitted
  /\ \E i \in 1..Len(portfolioResult), j \in 1..Len(VisiblePortfolioIds) :
       /\ VisiblePortfolioIds[j] = "zakatable_amount"
       /\ j < Len(VisiblePortfolioIds)
       /\ VisiblePortfolioIds[j + 1] = "zakat_due"
       /\ computePortfolioZakatableAmount(portfolioResult[i]) = Num(4, 1)
       /\ DownloadedTable[i + 1][j] = <<"4", ".", "0", "0">>
       /\ DownloadedTable[i + 1][j + 1] = <<"0", ".", "1", "0">>
       /\ portfolioRenderCell("zakatable_amount", portfolioResult[i])
            = <<"4", ".", "0", "0">>

\* C8: an emitted portfolio file holds one header record, the labels of the
\* visible portfolio columns in definition order followed by "Warnings", then
\* one record per result company in response order: the visible columns'
\* export values followed by the company's warnings joined by one space.
\* Hidden columns contribute no field.
C8_PortfolioCsvContents ==
  PortfolioFileEmitted =>
    LET ids == VisiblePortfolioIds
        table == DownloadedTable
    IN  /\ Len(table) = Len(portfolioResult) + 1
        /\ table[1] = [j \in 1..Len(ids) |-> PortfolioLabel(ids[j])]
                      \o << <<"Warnings">> >>
        /\ \A i \in 1..Len(portfolioResult) :
             table[i + 1] =
               [j \in 1..Len(ids) |-> portfolioGetExportValue(ids[j], portfolioResult[i])]
               \o << Join(portfolioResult[i].warnings, <<" ">>) >>

\* two companies, the Company and CRI / Price columns hidden, the first
\* company with two warnings
C8_Witness ==
  /\ PortfolioFileEmitted
  /\ Len(portfolioResult) = 2
  /\ ~portfolioColumnConfig["company"].visible
  /\ ~portfolioColumnConfig["cri_ratio"].visible
  /\ Len(VisiblePortfolioIds) = 10
  /\ Len(DownloadedTable) = 3
  /\ Len(DownloadedTable[1]) = 11
  /\ DownloadedTable[1][1] = <<"Ticker">>
  /\ DownloadedTable[1][2] = <<"Currency">>
  /\ DownloadedTable[1][11] = <<"Warnings">>
  /\ DownloadedTable[2][11] = <<"No", " ", "price", " ", "Stale", " ", "shares">>
  /\ DownloadedTable[3][1] = <<"B">>

\* C9: an emitted fund-holdings file carries no column that is switched off:
\* the label of a hidden fund-holding column is not among its header fields.
C9_FundCsvRespectsVisibleColumns ==
  FundFileEmitted =>
    LET header == DownloadedTable[1]
    IN  \A j \in 1..Len(fundHoldingColumns) :
          ~ColumnIsVisible(fundHoldingColumnConfig, fundHoldingColumns[j].id)
            => \A k \in 1..Len(header) : header[k] # fundHoldingColumns[j].label

\* C10: no portfolio file is emitted while every portfolio column is off.
C10_NoFileWithZeroVisibleColumns ==
  ~(PortfolioFileEmitted /\ visiblePortfolioColumns = <<>>)

(***************************************************************************)
(* Column registry algebra                                                 *)
(***************************************************************************)
\* the definitions that config leaves visible, in definition order
VisibleDefinitions(columns, config) ==
  LET on(column) == column.id \notin DOMAIN config \/ config[column.id].visible
  IN  SelectSeq(columns, on)

WithoutColumn(sequence, columnId) ==
  LET other(column) == column.id # columnId
  IN  SelectSeq(sequence, other)

VisibleColumnsLaw(columns, config) ==
  /\ FilterVisible(columns, config, 1) = VisibleDefinitions(columns, config)
  /\ \A j \in 1..Len(columns) :
       LET X == columns[j].id
           off == WithVisibility(config, columns, X, FALSE)
           backOn == WithVisibility(off, columns, X, TRUE)
       IN  /\ FilterVisible(columns, off, 1)
                = WithoutColumn(FilterVisible(columns, config, 1), X)
           /\ ColumnIsVisible(config, X) =>
                FilterVisible(columns, backOn, 1) = FilterVisible(columns, config, 1)

\* C11: in every reachable state the visible columns are the definitions whose
\* config is visible, in definition order; switching a column X off leaves the
\* previous visible sequence minus X in the same relative order, and switching
\* a visible X off and on again gives back the same visible sequence.  Both
\* for the portfolio columns and for the fund-holding columns.
C11_VisibleColumnsSubsequence ==
  /\ VisibleColumnsLaw(portfolioColumns, portfolioColumnConfig)
  /\ VisibleColumnsLaw(fundHoldingColumns, fundHoldingColumnConfig)
  /\ visiblePortfolioColumns = VisibleDefinitions(portfolioColumns, portfolioColumnConfig)
  /\ visibleFundHoldingColumns
       = VisibleDefinitions(fundHoldingColumns, fundHoldingColumnConfig)

\* Company and Zakatable Amount switched off, the ten others left in
\* definition order: Ticker, Currency, ..., CRI / Price, Zakat Due
C11_Witness ==
  /\ ~portfolioColumnConfig["company"].visible
  /\ ~portfolioColumnConfig["zakatable_amount"].visible
  /\ Len(visiblePortfolioColumns) = 10
  /\ visiblePortfolioColumns[1].id = "ticker"
  /\ visiblePortfolioColumns[2].id = "currency"
  /\ visiblePortfolioColumns[9].id = "cri_ratio"
  /\ visiblePortfolioColumns[10].id = "zakat_due"

(***************************************************************************)
(* CSV serialisation                                                       *)
(***************************************************************************)
\* every value the two export handlers can hand to sanitizeCsvValue in this
\* state, and null
ExportedFieldValues ==
  {NullStr}
  \cup {portfolioColumns[j].label : j \in 1..Len(portfolioColumns)}
  \cup {portfolioGetExportValue(portfolioColumns[j].id, portfolioResult[i]) :
          i \in 1..Len(portfolioResult), j \in 1..Len(portfolioColumns)}
  \cup {Join(portfolioResult[i].warnings, <<" ">>) : i \in 1..Len(portfolioResult)}
  \cup UNION {UNION {{fundHoldingsExportRow(fundResult[f].holdings[h])[k] : k \in 1..15} :
                       h \in 1..Len(fundResult[f].holdings)} :
                f \in 1..Len(fundResult)}

NeedsQuoting(value) ==
  \E i \in 1..Len(value) : value[i] \in {COMMA, QUOTE, NEWLINE}

\* out is value wrapped in double quotes with every inner quote doubled
IsQuotedForm(out, value) ==
  /\ Len(out) = Len(value) + 2 + Cardinality(QuotePositions(value))
  /\ out[1] = QUOTE
  /\ out[Len(out)] = QUOTE
  /\ Cardinality(QuotePositions(out)) = 2 + 2 * Cardinality(QuotePositions(value))
  /\ Undouble(SubSeq(out, 2, Len(out) - 1)) = value

\* C12: sanitizeCsvValue wraps a value in double quotes, doubling each inner
\* double quote, when the value holds a comma, a double quote or a line break
\* (the character "\n"), and returns it unchanged otherwise (null gives the
\* empty field); an emitted file has its records joined by single line breaks
\* and no trailing line break.
C12_CsvEscaping ==
  /\ \A value \in ExportedFieldValues :
       IF value = NullStr THEN sanitizeCsvValue(value) = <<>>
       ELSE IF NeedsQuoting(value) THEN IsQuotedForm(sanitizeCsvValue(value), value)
       ELSE sanitizeCsvValue(value) = value
  /\ download.emitted =>
       /\ download.content[Len(download.content)] # NEWLINE
       /\ PortfolioFileEmitted => Len(DownloadedTable) = Len(portfolioResult) + 1
       /\ FundFileEmitted =>
            \E f \in 1..Len(fundResult) :
              Len(DownloadedTable) = Len(fundResult[f].holdings) + 1

\* Acme, Inc. "East" is exported as "Acme, Inc. ""East""" and read back whole
C12_Witness ==
  /\ PortfolioFileEmitted
  /\ portfolioColumnConfig["company"].visible
  /\ portfolioColumnConfig["ticker"].visible
  /\ \E i \in 1..Len(portfolioResult) :
       /\ portfolioResult[i].company_name
            = <<"Acme", ",", " ", "Inc.", " ", QUOTE, "East", QUOTE>>
       /\ sanitizeCsvValue(portfolioResult[i].company_name)
            = <<QUOTE, "Acme", ",", " ", "Inc.", " ", QUOTE, QUOTE, "East",
                QUOTE, QUOTE, QUOTE>>
       /\ DownloadedTable[i + 1][2] = portfolioResult[i].company_name

(***************************************************************************)
(* C13  Error state is separate per mode: an error produced by one mode is *)
(* never cleared, overwritten or replaced by starting, failing or          *)
(* completing a request of the other mode.                                 *)
(***************************************************************************)
\* the messages only handlePortfolioSubmit sets
PortfolioOnlyErrors ==
  { <<"Select an as-of date before requesting valuations.">>,
    <<"Add at least one company ticker.">>,
    <<"Unable to fetch valuations.">> }

\* the messages only handleFundFetch sets
FundOnlyErrors ==
  { <<"Select an as-of date before requesting fund holdings.">>,
    <<"Add at least one fund or ETF ticker.">>,
    <<"Unable to fetch fund holdings.">> }

\* C13: a step that starts or ends a request of one mode leaves an error that
\* the other mode produced as it is
C13_ErrorSeparatePerMode ==
  [][ /\ (error \in PortfolioOnlyErrors /\ fundRequest' # fundRequest)
           => error' = error
      /\ (error \in FundOnlyErrors /\ portfolioRequest' # portfolioRequest)
           => error' = error ]_vars

(***************************************************************************)
(* C14  Every step of a request of one mode leaves the other mode's result,*)
(* generated-at time and loading flag unchanged, and a request of one mode *)
(* can be started while a request of the other mode is in flight.          *)
(***************************************************************************)
PortfolioStartable ==
  /\ activeTab = "portfolio"
  /\ ~portfolioLoading
  /\ asOfDate # <<>>
  /\ \E i \in 1..Len(portfolioRows) : ~BlankString(portfolioRows[i].ticker)

FundStartable ==
  /\ activeTab = "funds"
  /\ ~fundLoading
  /\ asOfDate # <<>>
  /\ \E i \in 1..Len(fundRows) : ~BlankString(fundRows[i].ticker)

\* C14: steps of a portfolio request leave fundResult, fundGeneratedAt and
\* fundLoading unchanged, steps of a fund request leave portfolioResult,
\* portfolioGeneratedAt and portfolioLoading unchanged, and a request whose
\* inputs are valid can start whether or not the other mode is loading
C14_ModesIsolated ==
  /\ [][ /\ portfolioRequest' # portfolioRequest
              => UNCHANGED <<fundResult, fundGeneratedAt, fundLoading>>
         /\ fundRequest' # fundRequest
              => UNCHANGED <<portfolioResult, portfolioGeneratedAt,
                             portfolioLoading>> ]_vars
  /\ [](PortfolioStartable => ENABLED (handlePortfolioSubmit /\ portfolioLoading'))
  /\ [](FundStartable => ENABLED (handleFundFetch /\ fundLoading'))

\* both requests in flight next to results of earlier requests of both modes
C14_Witness ==
  /\ portfolioRequest # <<>> /\ portfolioLoading
  /\ fundRequest # <<>> /\ fundLoading
  /\ portfolioResult # <<>>
  /\ fundResult # <<>>

(***************************************************************************)
(* C15  Input validation: with an empty as-of date, or with no input row   *)
(* of the mode that has a non-blank ticker, the submit handler sets an     *)
(* error message, sends no request, leaves the loading flag false and      *)
(* leaves the displayed results unchanged.                                 *)
(***************************************************************************)
NoTicker(rows) == \A i \in 1..Len(rows) : BlankString(rows[i].ticker)

ResultVars == <<portfolioResult, portfolioGeneratedAt, fundResult, fundGeneratedAt>>

\* C15: a submit of either mode with invalid inputs ends with an error
\* message on display, no request pending, the loading flag false and the
\* results as they were
C15_ValidationSendsNothing ==
  [][ /\ (handlePortfolioSubmit /\ (asOfDate = <<>> \/ NoTicker(portfolioRows)))
        => /\ error' # NullStr /\ error' # <<>>
           /\ portfolioRequest' = <<>>
           /\ ~portfolioLoading'
           /\ UNCHANGED ResultVars
      /\ (handleFundFetch /\ (asOfDate = <<>> \/ NoTicker(fundRows)))
        => /\ error' # NullStr /\ error' # <<>>
           /\ fundRequest' = <<>>
           /\ ~fundLoading'
           /\ UNCHANGED ResultVars ]_vars

\* a submit with a date and only a blank ticker, results of an earlier
\* request still on display
C15_Witness ==
  /\ error = <<"Add at least one company ticker.">>
  /\ asOfDate # <<>>
  /\ NoTicker(portfolioRows)
  /\ portfolioRows[1].ticker # <<>>
  /\ portfolioResult # <<>>
  /\ portfolioRequest = <<>>
  /\ ~portfolioLoading

(***************************************************************************)
(* C16  Transport failure keeps results: when a valuation request fails    *)
(* (network error or non-success status), the mode's result list and       *)
(* generated-at timestamp are unchanged, the error message is the response *)
(* body or, when the body is empty, the generic fallback message, and the  *)
(* mode's loading flag returns to false.                                   *)
(***************************************************************************)
BodyOrFallback(body, fallback) == IF body # <<>> THEN body ELSE fallback

PortfolioFailureKeepsResults ==
  UNCHANGED ResultVars /\ ~portfolioLoading' /\ portfolioRequest' = <<>>

FundFailureKeepsResults ==
  UNCHANGED ResultVars /\ ~fundLoading' /\ fundRequest' = <<>>

\* C16 as stated: after a non-success status the error is the body or the
\* fallback, and after a network error, which has no body, the fallback
C16_FailureMessageIsBodyOrFallback ==
  [][ /\ \A body \in ErrorBodies :
           /\ handlePortfolioSubmitNotOk(body)
                => /\ PortfolioFailureKeepsResults
                   /\ error' = BodyOrFallback(body, <<"Unable to fetch valuations.">>)
           /\ handleFundFetchNotOk(body)
                => /\ FundFailureKeepsResults
                   /\ error' = BodyOrFallback(body, <<"Unable to fetch fund holdings.">>)
      /\ \A message \in RejectionMessages :
           /\ handlePortfolioSubmitRejected(message)
                => /\ PortfolioFailureKeepsResults
                   /\ error' = <<"Unable to fetch valuations.">>
           /\ handleFundFetchRejected(message)
                => /\ FundFailureKeepsResults
                   /\ error' = <<"Unable to fetch fund holdings.">> ]_vars

\* C16 amended: after a non-success status the error is the body or the
\* fallback; after a network error it is the message of the error that fetch
\* rejected with; either way the results and generated-at times are
\* unchanged and the mode's loading flag is false
C16_TransportFailureKeepsResults ==
  [][ /\ \A body \in ErrorBodies :
           /\ handlePortfolioSubmitNotOk(body)
                => /\ PortfolioFailureKeepsResults
                   /\ error' = BodyOrFallback(body, <<"Unable to fetch valuations.">>)
           /\ handleFundFetchNotOk(body)
                => /\ FundFailureKeepsResults
                   /\ error' = BodyOrFallback(body, <<"Unable to fetch fund holdings.">>)
      /\ \A message \in RejectionMessages :
           /\ handlePortfolioSubmitRejected(message)
                => /\ PortfolioFailureKeepsResults
                   /\ error' = message
           /\ handleFundFetchRejected(message)
                => /\ FundFailureKeepsResults
                   /\ error' = message ]_vars

\* a request that failed with an empty body while results of an earlier
\* request are on display
C16_Witness ==
  /\ error = <<"Unable to fetch valuations.">>
  /\ portfolioResult # <<>>
  /\ portfolioGeneratedAt # NullStr
  /\ ~portfolioLoading
  /\ portfolioRequest = <<>>

(***************************************************************************)
(* C17  Stale instructional-text responses are discarded: once a request   *)
(* has been cancelled (panel closed or effect re-run), its later           *)
(* completion by success, failure or abort changes neither the displayed   *)
(* content, nor the displayed error, nor the loading indicator of a        *)
(* request started after it.                                               *)
(***************************************************************************)
LoadInFlight == \E i \in DOMAIN loads : ~loads[i].aborted

TimeoutMessage == <<"Timed out while loading instructions. Please try again.">>

FailureOutcomes == {outcome \in LoadOutcomes : outcome.kind # "text"}

\* what a failed call leaves behind, given the message it must show
FailureShown(message) ==
  /\ instructionsContent' = IF instructionsContent # NullStr
                            THEN instructionsContent
                            ELSE INSTRUCTIONS_FALLBACK_MESSAGE
  /\ instructionsError' = message
  /\ ~instructionsLoading'
  /\ loads' = <<>>
  /\ UNCHANGED <<ResultVars, valuationVars>>

\* C18: a failed call of the open panel shows the fallback content and its
\* message (the timeout message for a timeout, the error's message
\* otherwise), starts no call and changes no valuation state; and while
\* content exists only Try again starts a call
C18_InstructionsFailureNonBlocking ==
  /\ [][ /\ \A i \in DOMAIN loads, outcome \in FailureOutcomes :
              loadInstructionsSettles(i, outcome)
                => /\ FailureShown(outcome.message)
                   /\ outcome.message # TimeoutMessage
         /\ \A i \in DOMAIN loads :
              loadInstructionsTimesOut(i) => FailureShown(TimeoutMessage) ]_vars
  /\ [][ (instructionsContent # NullStr /\ ~LoadInFlight /\ LoadInFlight')
           => tryAgain ]_vars

\* a timed-out call of the open panel next to portfolio results
C18_Witness ==
  /\ instructionsOpen
  /\ instructionsError = TimeoutMessage
  /\ instructionsContent = INSTRUCTIONS_FALLBACK_MESSAGE
  /\ loads = <<>>
  /\ portfolioResult # <<>>

(***************************************************************************)
(* C19  Healing the configuration map adds {visible: true, width:          *)
(* defaultWidth} for every column definition whose id has no entry,        *)
(* changes no existing entry, gives the same map when applied twice, and   *)
(* does not depend on the order in which the definitions are visited.      *)
(***************************************************************************)
ColumnIds(columns) == {columns[i].id : i \in 1..Len(columns)}

Reversed(columns) == [i \in 1..Len(columns) |-> columns[Len(columns) + 1 - i]]

\* the definitions from the second on, then the first
Rotated(columns) == Tail(columns) \o <<Head(columns)>>

HealLaw(config, columns) ==
  /\ DOMAIN Heal(config, columns) = DOMAIN config \cup ColumnIds(columns)
  /\ \A id \in DOMAIN config : Heal(config, columns)[id] = config[id]
  /\ \A id \in ColumnIds(columns) \ DOMAIN config :
       Heal(config, columns)[id] =
         [visible |-> TRUE, width |-> DefaultWidthOf(columns, id)]
  /\ Heal(Heal(config, columns), columns) = Heal(config, columns)
  /\ Heal(config, Reversed(columns)) = Heal(config, columns)
  /\ Heal(config, Rotated(columns)) = Heal(config, columns)

\* C19: for the configuration of either table, healed is the configuration
\* plus a default entry per definition without one, healing twice is healing
\* once, and visiting the definitions in another order gives the same map
C19_HealAddsMissingOnly ==
  /\ HealLaw(portfolioColumnConfig, portfolioColumns)
  /\ HealLaw(fundHoldingColumnConfig, fundHoldingColumns)

\* a configuration that lacks a definition's entry and holds an entry that is
\* not the default one, and one of an id that no definition has
C19_Witness ==
  /\ "ticker" \notin DOMAIN portfolioColumnConfig
  /\ "company" \in DOMAIN portfolioColumnConfig
  /\ portfolioColumnConfig["company"] = [visible |-> FALSE, width |-> 96]
  /\ UnknownColumnId \in DOMAIN portfolioColumnConfig

(***************************************************************************)
(* C20  setVisibility(id, v) never fails, for a known or an unknown id:    *)
(* afterwards the id's entry has visible = v and as width its previous     *)
(* width if it had an entry, else the definition's default width, else     *)
(* 160; every other entry is unchanged.                                    *)
(***************************************************************************)
VisibilitySet(prev, next, columns, id, visible) ==
  /\ DOMAIN next = DOMAIN prev \cup {id}
  /\ next[id].visible = visible
  /\ next[id].width =
       IF id \in DOMAIN prev THEN prev[id].width
       ELSE IF id \in ColumnIds(columns)
       THEN columns[CHOOSE i \in 1..Len(columns) : columns[i].id = id].defaultWidth
       ELSE 160
  /\ \A other \in DOMAIN prev \ {id} : next[other] = prev[other]

\* C20: a visibility change of either table, for an id with an entry, for a
\* definition's id without one and for an id of no definition, can always be
\* made and leaves the entry and the rest of the map as stated
C20_SetVisibilityTotal ==
  /\ [][ /\ \A id \in ConfigPortfolioIds \cup {UnknownColumnId}, visible \in BOOLEAN :
              handlePortfolioColumnVisibilityChange(id, visible)
                => VisibilitySet(portfolioColumnConfig, portfolioColumnConfig',
                                 portfolioColumns, id, visible)
         /\ \A id \in ConfigFundIds \cup {UnknownColumnId}, visible \in BOOLEAN :
              handleFundColumnVisibilityChange(id, visible)
                => VisibilitySet(fundHoldingColumnConfig, fundHoldingColumnConfig',
                                 fundHoldingColumns, id, visible) ]_vars
  /\ [](\A id \in ConfigPortfolioIds \cup {UnknownColumnId}, visible \in BOOLEAN :
          activeTab = "portfolio"
            => ENABLED handlePortfolioColumnVisibilityChange(id, visible))
  /\ [](\A id \in ConfigFundIds \cup {UnknownColumnId}, visible \in BOOLEAN :
          activeTab = "funds"
            => ENABLED handleFundColumnVisibilityChange(id, visible))

\* entries made by visibility changes: of an unknown id (width 160), of a
\* definition's id that had none (default width), and of an id whose width
\* had been changed before
C20_Witness ==
  /\ UnknownColumnId \in DOMAIN portfolioColumnConfig
  /\ portfolioColumnConfig[UnknownColumnId] = [visible |-> FALSE, width |-> 160]
  /\ "company" \in DOMAIN portfolioColumnConfig
  /\ portfolioColumnConfig["company"] = [visible |-> FALSE, width |-> 220]
  /\ "cri_ratio" \in DOMAIN portfolioColumnConfig
  /\ portfolioColumnConfig["cri_ratio"] = [visible |-> FALSE, width |-> 320]

(***************************************************************************)
(* C21  setWidth(id, w) stores w exactly as given, with no clamping even   *)
(* when w is outside [96, 320]; it keeps id's visibility (true when id had *)
(* no entry) and leaves every other id's entry unchanged.                  *)
(***************************************************************************)
WidthSet(prev, next, id, width) ==
  /\ DOMAIN next = DOMAIN prev \cup {id}
  /\ next[id].width = width
  /\ next[id].visible = IF id \in DOMAIN prev THEN prev[id].visible ELSE TRUE
  /\ \A other \in DOMAIN prev \ {id} : next[other] = prev[other]

\* C21: a width change of either table stores the width it is given, inside
\* or outside the slider's range, keeps the entry's visibility (true for an
\* id without entry) and leaves the other entries as they are
C21_SetWidthStoresAsGiven ==
  [][ /\ \A id \in WidthPortfolioIds, width \in AnyWidthInputs :
           handlePortfolioColumnWidthChange(id, width)
             => WidthSet(portfolioColumnConfig, portfolioColumnConfig', id, width)
      /\ \A id \in WidthFundIds, width \in AnyWidthInputs :
           handleFundColumnWidthChange(id, width)
             => WidthSet(fundHoldingColumnConfig, fundHoldingColumnConfig', id, width)
    ]_vars

\* widths outside the range stored on a hidden column, on a column that had
\* no entry and on an id of no definition
C21_Witness ==
  /\ "company" \in DOMAIN portfolioColumnConfig
  /\ portfolioColumnConfig["company"] = [visible |-> FALSE, width |-> 1000]
  /\ "ticker" \in DOMAIN portfolioColumnConfig
  /\ portfolioColumnConfig["ticker"] = [visible |-> TRUE, width |-> 40]
  /\ UnknownColumnId \in DOMAIN portfolioColumnConfig
  /\ portfolioColumnConfig[UnknownColumnId] = [visible |-> TRUE, width |-> 0]

(***************************************************************************)
(* C22  Holding display order: the displayed rows of a fund are a          *)
(* permutation of its holdings in which weights are non-increasing and     *)
(* every holding with an unknown weight comes after every holding with a   *)
(* known weight; an unknown weight is displayed as 'N/A', never as         *)
(* negative infinity.                                                      *)
(***************************************************************************)
Occurrences(seq, x) == Cardinality({i \in 1..Len(seq) : seq[i] = x})

IsPermutation(a, b) ==
  /\ Len(a) = Len(b)
  /\ \A i \in 1..Len(a) : Occurrences(a, a[i]) = Occurrences(b, a[i])

WeightKnown(holding) == holding.weight # NullNum

InDisplayOrder(rows) ==
  \A i, j \in 1..Len(rows) :
    i < j =>
      /\ (WeightKnown(rows[i]) /\ WeightKnown(rows[j]))
           => ~JsGreater(rows[j].weight, rows[i].weight)
      /\ WeightKnown(rows[j]) => WeightKnown(rows[i])

\* position of the Weight column among the columns on display, 0 if hidden
WeightColumnAt ==
  IF \E j \in 1..Len(visibleFundHoldingColumns) :
       visibleFundHoldingColumns[j].id = "weight"
  THEN CHOOSE j \in 1..Len(visibleFundHoldingColumns) :
         visibleFundHoldingColumns[j].id = "weight"
  ELSE 0

\* C22: for every fund on display the rows are a permutation of the fund's
\* holdings, by non-increasing weight with the unknown weights last, and the
\* Weight cell of a row reads 'N/A' exactly when the weight is unknown
C22_HoldingDisplayOrder ==
  \A f \in 1..Len(fundResult) :
    /\ IsPermutation(sortedHoldings(fundResult[f].holdings), fundResult[f].holdings)
    /\ InDisplayOrder(sortedHoldings(fundResult[f].holdings))
    /\ Len(displayedHoldingRows(fundResult[f])) = Len(fundResult[f].holdings)
    /\ WeightColumnAt # 0 =>
         \A i \in 1..Len(fundResult[f].holdings) :
           /\ displayedHoldingRows(fundResult[f])[i][WeightColumnAt] = <<"N/A">>
                <=> ~WeightKnown(sortedHoldings(fundResult[f].holdings)[i])
           /\ displayedHoldingRows(fundResult[f])[i][WeightColumnAt]
                # formatRatio(Infinity(-1))

\* a fund sent with an unknown weight first and the largest weight last,
\* shown with the Weight column on display and the Holding column hidden
C22_Witness ==
  /\ Len(fundResult) = 1
  /\ fundResult[1].holdings = <<HoldingCash, HoldingB, HoldingAcme>>
  /\ sortedHoldings(fundResult[1].holdings) = <<HoldingAcme, HoldingB, HoldingCash>>
  /\ WeightColumnAt = 1

(***************************************************************************)
(* C23  Derived values follow the current ledger: in every reachable state *)
(* each displayed zakatable amount and zakat due equals the value computed *)
(* from the last received response and the ledger built from the current   *)
(* input rows; editing, adding or removing an amount row after results     *)
(* arrived changes the displayed value without a new request, and nothing  *)
(* derived is stored on the response entities.                             *)
(***************************************************************************)
\* the sum the current rows hold for a ticker, NullNum without a usable row
CurrentAmount(rows, key) ==
  IF key # <<>> /\ AmountRows(rows, key) # {}
  THEN SumOfAmounts(rows, AmountRows(rows, key))
  ELSE NullNum

Times(a, b) == IF a.k = "num" /\ b.k = "num" THEN Num(a.n * b.n, a.d * b.d) ELSE NullNum

Over(a, b) ==
  IF a.k = "num" /\ b.k = "num" /\ b.n > 0 THEN Num(a.n * b.d, a.d * b.n) ELSE NullNum

ExpectedPortfolioZakatable(company) ==
  Times(CurrentAmount(portfolioRows, toUpperCase(company.ticker)),
        company.cri_to_market_price_ratio)

ExpectedFundZakatable(fund) ==
  Times(CurrentAmount(fundRows, toUpperCase(fund.ticker)),
        Over(fund.aggregate_cri_to_market_price_ratio, fund.total_weight_covered))

DerivedFromCurrentRows ==
  /\ \A i \in 1..Len(portfolioResult) :
       /\ computePortfolioZakatableAmount(portfolioResult[i])
            = ExpectedPortfolioZakatable(portfolioResult[i])
       /\ computePortfolioZakatDue(portfolioResult[i])
            = Times(ExpectedPortfolioZakatable(portfolioResult[i]), Num(25, 1000))
  /\ \A i \in 1..Len(fundResult) :
       /\ zakatableAmountDisplay(fundResult[i])
            = formatNumberWith(ExpectedFundZakatable(fundResult[i]), 2, 2)
       /\ zakatDueDisplay(fundResult[i])
            = formatNumberWith(Times(ExpectedFundZakatable(fundResult[i]),
                                     Num(25, 1000)), 2, 2)

RowsEdited == portfolioRows' # portfolioRows \/ fundRows' # fundRows

\* C23: in every state the zakatable amounts and zakat dues on display are
\* those of the results held and the sums of the current rows, and a step
\* that edits, adds or removes a row changes neither the results held nor
\* the requests in flight
C23_DerivedFollowsLedger ==
  /\ []DerivedFromCurrentRows
  /\ [][ RowsEdited
           => UNCHANGED <<ResultVars, portfolioRequest, fundRequest,
                          portfolioLoading, fundLoading>> ]_vars

\* results that arrived for an amount of 400 and are shown, with no request
\* in flight, for rows that were edited since: two rows of the ticker
C23_Witness ==
  /\ Len(portfolioResult) = 1
  /\ portfolioResult[1].ticker = <<"A">>
  /\ portfolioRequest = <<>>
  /\ Len(portfolioRows) = 2
  /\ portfolioRows[1].amount = <<"2", ".", "5">>
  /\ portfolioRows[2].amount = <<"4", "0", "0">>
  /\ computePortfolioZakatableAmount(portfolioResult[1])
       = Times(Num(805, 2), portfolioResult[1].cri_to_market_price_ratio)
  /\ computePortfolioZakatableAmount(portfolioResult[1]) # NullNum

(***************************************************************************)
(* C24  The two ledgers are never merged: the portfolio ledger depends     *)
(* only on the portfolio input rows and the fund ledger only on the fund   *)
(* input rows, so an edit to fund rows leaves every portfolio zakat value  *)
(* unchanged and an edit to portfolio rows leaves every fund zakat value   *)
(* unchanged, even when the same ticker appears in both.                   *)
(***************************************************************************)
PortfolioZakatValues ==
  [i \in 1..Len(portfolioResult) |->
     <<computePortfolioZakatableAmount(portfolioResult[i]),
       computePortfolioZakatDue(portfolioResult[i])>>]

FundZakatValues ==
  [i \in 1..Len(fundResult) |->
     <<fundZakatableAmount(fundResult[i]), fundZakatDue(fundResult[i])>>]

\* the value a ledger holds for a ticker, NullNum without an entry
LedgerAmount(ledger, key) == IF key \in DOMAIN ledger THEN ledger[key] ELSE NullNum

\* the zakat values as functions of one mode's results and one ledger
PortfolioValuesOf(ledger) ==
  [i \in 1..Len(portfolioResult) |->
     <<Times(LedgerAmount(ledger, toUpperCase(portfolioResult[i].ticker)),
             portfolioResult[i].cri_to_market_price_ratio),
       Times(Times(LedgerAmount(ledger, toUpperCase(portfolioResult[i].ticker)),
                   portfolioResult[i].cri_to_market_price_ratio), Num(25, 1000))>>]

FundValuesOf(ledger) ==
  [i \in 1..Len(fundResult) |->
     <<Times(LedgerAmount(ledger, toUpperCase(fundResult[i].ticker)),
             Over(fundResult[i].aggregate_cri_to_market_price_ratio,
                  fundResult[i].total_weight_covered)),
       Times(Times(LedgerAmount(ledger, toUpperCase(fundResult[i].ticker)),
                   Over(fundResult[i].aggregate_cri_to_market_price_ratio,
                        fundResult[i].total_weight_covered)), Num(25, 1000))>>]

\* C24: each ledger is the per-ticker sum of its own tab's rows and each
\* mode's zakat values are those of its own ledger; a step that changes the
\* fund rows leaves the portfolio ledger as it is, a step that changes the
\* portfolio rows leaves the fund ledger as it is
C24_LedgersNeverMerged ==
  /\ [](/\ LedgerIsSumOfRows(portfolioRows, portfolioAmountMap)
        /\ LedgerIsSumOfRows(fundRows, fundAmountMap)
        /\ PortfolioZakatValues = PortfolioValuesOf(portfolioAmountMap)
        /\ FundZakatValues = FundValuesOf(fundAmountMap))
  /\ [][ /\ fundRows' # fundRows => portfolioAmountMap' = portfolioAmountMap
         /\ portfolioRows' # portfolioRows => fundAmountMap' = fundAmountMap ]_vars

\* the same ticker on both tabs with different amounts, each mode's value
\* taken from its own amount
C24_Witness ==
  /\ RowKey(portfolioRows[1]) = <<"A">>
  /\ RowKey(fundRows[1]) = <<"A">>
  /\ portfolioAmountMap[<<"A">>] = Num(400, 1)
  /\ fundAmountMap[<<"A">>] = Num(5, 2)
  /\ PortfolioZakatValues[1][1] # NullNum
  /\ FundZakatValues[1][1] # NullNum
  /\ PortfolioZakatValues[1][1] # FundZakatValues[1][1]

(***************************************************************************)
(* C25  Every instructional-text request that starts eventually ends, by   *)
(* delivered text, failure, cancellation on close, or automatic            *)
(* cancellation by the 8-second timeout, so the loading indicator does not *)
(* stay on forever even when the server stops responding at any stage of   *)
(* the request (before the response or while the body is being read).      *)
(***************************************************************************)
\* C25: whenever the loading indicator is on, it is off at some later time
C25_EveryLoadEnds == instructionsLoading ~> ~instructionsLoading

(***************************************************************************)
(* C26  At most one live instructional-text request: in every reachable    *)
(* state at most one request is in flight and not cancelled; a request is  *)
(* started only when the panel is open and the content is null, so content *)
(* that has been loaded is never fetched again on reopen.                  *)
(***************************************************************************)
LiveLoads == {i \in DOMAIN loads : ~loads[i].aborted}

\* C26: never two calls in flight that were not aborted; a step that starts
\* a call ends with the panel open and no content; and pressing the button
\* while content is held starts no call
C26_AtMostOneLiveLoad ==
  /\ [](Cardinality(LiveLoads) <= 1)
  /\ [][ Len(loads') > Len(loads)
           => instructionsOpen' /\ instructionsContent' = NullStr ]_vars
  /\ [][ (toggleInstructions /\ instructionsContent # NullStr)
           => loads' = loads ]_vars

\* the guide's text on display in the open panel, no call in flight, next
\* to portfolio results
C26_Witness ==
  /\ instructionsOpen
  /\ instructionsContent = <<"# Usage guide">>
  /\ instructionsError = NullStr
  /\ loads = <<>>
  /\ ~instructionsLoading
  /\ portfolioResult # <<>>

\* the step of one config: every entry stays, at most one entry changes, and
\* the entry that changes keeps one of its two fields
EntriesStay(prev, next) ==
  /\ DOMAIN prev \subseteq DOMAIN next
  /\ \A id \in DOMAIN prev, other \in DOMAIN prev :
       (next[id] # prev[id] /\ next[other] # prev[other]) => id = other
  /\ \A id \in DOMAIN prev :
       next[id].visible = prev[id].visible \/ next[id].width = prev[id].width

ColumnConfigs == <<portfolioColumnConfig, fundHoldingColumnConfig>>

NewResults ==
  \/ \E payload \in RequestPortfolioResponses : handlePortfolioSubmitResolved(payload)
  \/ \E payload \in RequestFundResponses : handleFundFetchResolved(payload)

\* C27: column config entries are permanent.  In every reachable state every
\* defined column id of either table has a config entry.  No step removes an
\* entry; a step changes at most one entry and only one of its two fields, so
\* no step puts an entry that was customized in both back to its defaults; and
\* the healing effects, new results and a tab switch change no entry at all:
\* an entry changes only when the user sets its visibility or its width.
C27_EntriesPermanent ==
  /\ [](/\ ColumnIds(portfolioColumns) \subseteq DOMAIN portfolioColumnConfig
        /\ ColumnIds(fundHoldingColumns) \subseteq DOMAIN fundHoldingColumnConfig)
  /\ [][ /\ EntriesStay(portfolioColumnConfig, portfolioColumnConfig')
         /\ EntriesStay(fundHoldingColumnConfig, fundHoldingColumnConfig') ]_vars
  /\ [][ ( \/ healPortfolioColumnConfig
           \/ healFundHoldingColumnConfig
           \/ NewResults
           \/ \E tab \in {"portfolio", "funds"} : setActiveTab(tab) )
         => ColumnConfigs' = ColumnConfigs ]_vars
  /\ [][ ColumnConfigs' # ColumnConfigs
         => /\ activeTab' = activeTab
            /\ <<portfolioResult, fundResult>>' = <<portfolioResult, fundResult>>
            /\ portfolioColumnConfig' # portfolioColumnConfig
                 => activeTab = "portfolio" /\ Len(portfolioResult) > 0
            /\ fundHoldingColumnConfig' # fundHoldingColumnConfig
                 => activeTab = "funds" /\ Len(fundResult) > 0 ]_vars

\* both tables customized (a portfolio column hidden and resized, a fund
\* column resized), second results of both modes on the page, the fund tab
\* showing after a switch
C27_Witness ==
  /\ ~portfolioColumnConfig["cri_ratio"].visible
  /\ portfolioColumnConfig["cri_ratio"].width = 320
  /\ fundHoldingColumnConfig["weight"].width = 96
  /\ portfolioGeneratedAt = Timestamp2
  /\ fundGeneratedAt = Timestamp2
  /\ activeTab = "funds"

\* a ticker as the service is to receive it: not empty, no blank at either end
TrimmedTicker(t) == t # <<>> /\ ~IsSpace(t[1]) /\ ~IsSpace(t[Len(t)])

BlankTicker(t) == \A i \in 1..Len(t) : IsSpace(t[i])

SentTickers(entries) ==
  \A i \in 1..Len(entries) : TrimmedTicker(entries[i].ticker)

RowsWithTicker(rows) == {i \in 1..Len(rows) : ~BlankTicker(rows[i].ticker)}

\* C28: request shape.  Every valuation request that is sent has exactly one
\* non-empty array: the portfolio handler sends a non-empty portfolio and no
\* funds, the fund handler a non-empty funds array and no portfolio; every
\* ticker in the sent array is non-blank and trimmed; and the step that sends
\* a request sends one entry per row with a non-blank ticker, the rows with a
\* blank ticker being left out.
C28_RequestShape ==
  /\ [](\A i \in 1..Len(portfolioRequest) :
          /\ Len(portfolioRequest[i].portfolio) > 0
          /\ portfolioRequest[i].funds = <<>>
          /\ SentTickers(portfolioRequest[i].portfolio))
  /\ [](\A i \in 1..Len(fundRequest) :
          /\ Len(fundRequest[i].funds) > 0
          /\ fundRequest[i].portfolio = <<>>
          /\ SentTickers(fundRequest[i].funds))
  /\ [][ Len(portfolioRequest') > Len(portfolioRequest)
           => Len(portfolioRequest'[1].portfolio)
                = Cardinality(RowsWithTicker(portfolioRows)) ]_vars
  /\ [][ Len(fundRequest') > Len(fundRequest)
           => Len(fundRequest'[1].funds)
                = Cardinality(RowsWithTicker(fundRows)) ]_vars

\* a portfolio request in flight that carries the padded ticker trimmed and
\* leaves out the blank row above it
C28_Witness ==
  /\ Len(portfolioRequest) = 1
  /\ Len(portfolioRows) = 2
  /\ portfolioRows[1].ticker = <<" ">>
  /\ portfolioRows[2].ticker = <<" ", "A", " ">>
  /\ Len(portfolioRequest[1].portfolio) = 1
  /\ portfolioRequest[1].portfolio[1].ticker = <<"A">>

PortfolioResultApplied ==
  <<portfolioResult, portfolioGeneratedAt>>' # <<portfolioResult, portfolioGeneratedAt>>

FundResultApplied ==
  <<fundResult, fundGeneratedAt>>' # <<fundResult, fundGeneratedAt>>

\* C29: per mode, the loading flag is true exactly while a valuation request
\* of that mode is in flight, and at most one is.  The flag is set by the
\* step that sends a request, every step that ends a request (a parsed body,
\* a non-success status, a rejected fetch, a body that does not parse) leaves
\* it false, and a flag that is true becomes false again once the network
\* has ended the request.  The trigger does nothing while the flag is true,
\* so a request is sent only when none of its mode is in flight, and results
\* are applied only by the step that ends the one request in flight: in the
\* order the requests were issued.
C29_LoadingWhileInFlight ==
  /\ [](/\ Len(portfolioRequest) <= 1
        /\ Len(fundRequest) <= 1
        /\ portfolioLoading <=> Len(portfolioRequest) = 1
        /\ fundLoading <=> Len(fundRequest) = 1)
  /\ [][ /\ Len(portfolioRequest') > Len(portfolioRequest)
           => ~portfolioLoading /\ portfolioLoading'
         /\ Len(fundRequest') > Len(fundRequest)
           => ~fundLoading /\ fundLoading' ]_vars
  /\ [][ /\ Len(portfolioRequest') < Len(portfolioRequest) => ~portfolioLoading'
         /\ Len(fundRequest') < Len(fundRequest) => ~fundLoading' ]_vars
  /\ [][ /\ PortfolioResultApplied
           => Len(portfolioRequest) = 1 /\ Len(portfolioRequest') = 0
         /\ FundResultApplied
           => Len(fundRequest) = 1 /\ Len(fundRequest') = 0 ]_vars
  /\ portfolioLoading ~> ~portfolioLoading
  /\ fundLoading ~> ~fundLoading

\* a fund request in flight with its flag set, the portfolio flag false
\* again after the second portfolio result was applied
C29_Witness ==
  /\ fundLoading
  /\ Len(fundRequest) = 1
  /\ ~portfolioLoading
  /\ portfolioRequest = <<>>
  /\ error = NullStr
  /\ portfolioResult # <<>>
  /\ portfolioGeneratedAt = Timestamp2

IsPrefix(prefix, s) ==
  Len(prefix) <= Len(s) /\ SubSeq(s, 1, Len(prefix)) = prefix

\* the funds on the page whose Download CSV button names its file as the
\* emitted file is named
FundsOfDownload ==
  {f \in 1..Len(fundResult) :
     IsPrefix(toLowerCase(IF fundResult[f].ticker # <<>> THEN fundResult[f].ticker
                          ELSE <<"fund">>)
              \o <<"-holdings-">>,
              download.filename)}

FundHoldingsFileWidth == 15

====
